---- MODULE Spec2Model ----
(***************************************************************************)
(* Model of the CorneZMK operator scripts:                                 *)
(*   scripts/find_devices.py   - bootloader device discovery               *)
(*   scripts/flash_firmware.py - mount / copy / settle / unmount           *)
(*   scripts/build.py, scripts/build-local.py - the workspace trees, the   *)
(*                               child processes of a build and the two    *)
(*                               threads that forward their output, the    *)
(*                               images copied to results, the exit status *)
(*                                                                         *)
(* One behaviour of the model is one run of one script.  What the host     *)
(* shows to the script (block devices, their udev metadata, the            *)
(* devices.conf inventory, whether the firmware image exists) is fixed in  *)
(* the initial state; the outcome of each external command (mount, cp,     *)
(* umount, a udevadm query repeated later, the operator's answer) is       *)
(* chosen when the script issues it.                                       *)
(*                                                                         *)
(* Text is modelled as a sequence of one-character strings, so that        *)
(* lower(), strip('"') and the regular expressions of the source act on    *)
(* characters.                                                             *)
(***************************************************************************)
EXTENDS Integers, Sequences, FiniteSets, TLC

VARIABLES
    tool,             \* which script this run executes
    configLoad,       \* what reading devices.conf yields, or that no root was found
    inventory,        \* devices.conf 'devices' mapping, in file order
    devices,          \* block devices under /sys/block/sd*, in glob order
    udevQuoted,       \* udevadm prints KEY="value" (TRUE) or KEY=value (FALSE)
    pc,               \* position of the script
    idx,              \* index of the next block device of the scan loop
    matching_devices, \* find_devices.py main: list of (nickname, device_path)
    stdout,           \* lines printed to standard output, in order
    exitCode,         \* -1 while running, else the process exit status
    device_name,      \* flash_firmware.py --device
    firmware_isfile,  \* os.path.isfile(firmware_path)
    ready_time,       \* flash_firmware.py --ready-time, seconds
    device_path,      \* flash_firmware.py: path returned by find_device
    verify,           \* flash_firmware.py: how verify_device ended
    events,           \* flash_firmware.py: external steps issued, in order
    flash_result,     \* flash_firmware() returned True
    boot_result,      \* check_bootloader_device: returned tuple
    args,             \* the remaining command line options of the run
    all_devices,      \* find_devices.py main: the --list-all list
    firmware_path,    \* flash_firmware.py main: path of the firmware image
    child_stdout,     \* flash_firmware.py find_device: result.stdout, as lines
    verify_obs,       \* flash_firmware.py verify_device: what it observed
    copy_argv,        \* flash_firmware.py: source and destination given to cp
    children,         \* build.py, build-local.py: child processes waited for
    build_stats,      \* build.py, build-local.py: entries save_build_stat wrote
    zmk_source,       \* build.py: the zmk-firmware checkout main found
    ws_zmk,           \* build.py: <workspace>/zmk-firmware
    ws_root,          \* build.py: <workspace>/project-root
    results,          \* build.py, build-local.py: files copied into results/
    streams,          \* build_firmware: per side, the child, its pipes, the readers
    unread,           \* build_firmware: per side, the pipes that held lines at its end
    stat_calls,       \* build.py, build-local.py: calls of save_build_stat
    sync_obs          \* sync_workspace: what one call was given and left behind

vars == <<tool, configLoad, inventory, devices, udevQuoted, pc, idx,
          matching_devices, stdout, exitCode, device_name, firmware_isfile,
          ready_time, device_path, verify, events, flash_result, boot_result,
          args, all_devices, firmware_path, child_stdout, verify_obs, copy_argv,
          children, build_stats, zmk_source, ws_zmk, ws_root, results, streams,
          unread, stat_calls, sync_obs>>

envVars == <<tool, configLoad, inventory, devices, udevQuoted, device_name,
             firmware_isfile, ready_time, args, zmk_source>>

(***************************************************************************)
(* Bounds of the model.                                                    *)
(***************************************************************************)
MaxDevices == 2
MaxEntries == 2
\* a --ready-time other than the default
OtherReadyTime == 1

(***************************************************************************)
(* Program constants.                                                      *)
(***************************************************************************)
DEFAULT_READY_TIME == 20
DEFAULT_DEVICE == "corne_ergokeeb"
DEFAULT_SIDE == "left"
DEFAULT_VARIANT == "default"
\* os.path.expanduser("~/mnt/corne"); a path is the sequence of its components
DEFAULT_MOUNT_POINT == <<"/", "home", "operator", "mnt", "corne">>
DEFAULT_DESTINATION_FIRMWARE_NAME == <<"CURRENT.UF2">>

(***************************************************************************)
(* Text.                                                                   *)
(***************************************************************************)
\* Python None, and a key that a mapping does not have.
None == <<"None">>

Quote == "\""

HexChars == {"0", "1", "2", "3", "4", "5", "6", "7", "8", "9",
             "a", "b", "c", "d", "e", "f", "A", "B", "C", "D", "E", "F"}

\* the letters that occur in the texts of the model
LowerChar(c) ==
    CASE c = "A" -> "a" [] c = "B" -> "b" [] c = "C" -> "c"
      [] c = "D" -> "d" [] c = "E" -> "e" [] c = "F" -> "f"
      [] c = "N" -> "n" [] c = "Y" -> "y"
      [] OTHER -> c

\* str.lower()
Lower(s) == [i \in DOMAIN s |-> LowerChar(s[i])]

\* str.strip('"'): drop every leading and every trailing double quote
RECURSIVE LStrip(_)
LStrip(s) == IF Len(s) > 0 /\ s[1] = Quote THEN LStrip(Tail(s)) ELSE s

RECURSIVE RStrip(_)
RStrip(s) ==
    IF Len(s) > 0 /\ s[Len(s)] = Quote
    THEN RStrip(SubSeq(s, 1, Len(s) - 1))
    ELSE s

StripQuotes(s) == RStrip(LStrip(s))

\* Python truthiness of a value that is None or a string
Truthy(s) == s # None /\ s # <<>>

\* dict.get(key, default) on a field that is None when the key is absent
DictGet(v, default) == IF v = None THEN default ELSE v

Id_1d50 == <<"1", "d", "5", "0">>
Id_1D50 == <<"1", "D", "5", "0">>
Id_615  == <<"6", "1", "5">>
Id_0615 == <<"0", "6", "1", "5">>

VendorIds  == {Id_1d50, Id_1D50}
ProductIds == {Id_615, Id_0615}

(***************************************************************************)
(* What the host shows.                                                    *)
(***************************************************************************)
DevPaths == <<"/dev/sda", "/dev/sdb", "/dev/sdc", "/dev/sdd">>

\* A block device: ok = the udevadm query succeeds; vendor/product = the raw
\* id text udev reports, None when udev reports no such property.
FailingDescriptor ==
    [ok |-> FALSE, vendor |-> None, product |-> None,
     removable |-> FALSE, usb |-> FALSE]

Descriptors ==
    [ok : {TRUE}, vendor : VendorIds, product : ProductIds,
     removable : BOOLEAN, usb : BOOLEAN]
    \cup [ok : {TRUE}, vendor : {None}, product : ProductIds,
          removable : {TRUE}, usb : {TRUE}]
    \cup [ok : {TRUE}, vendor : VendorIds, product : {None},
          removable : {TRUE}, usb : {TRUE}]
    \cup {FailingDescriptor}

\* Devices that have the shape of a bootloader volume, or cannot be queried.
ShapedDescriptors ==
    {d \in Descriptors : ~d.ok \/ (d.removable /\ d.usb)}

DeviceLists(D) == UNION {[1..n -> D] : n \in 0..MaxDevices}

\* the lists with one device less, for the runs that vary something else
ShortDeviceLists(D) == UNION {[1..n -> D] : n \in 0..(MaxDevices - 1)}

\* One firmware type of an entry's 'firmware' mapping: absent, a single file
\* name, or a mapping from side to file name ("" where the side has none).
NoFirmware == [kind |-> "absent", file |-> "", left |-> "", right |-> ""]
SingleFirmware(f) == [kind |-> "single", file |-> f, left |-> "", right |-> ""]
SidesFirmware(l, r) == [kind |-> "sides", file |-> "", left |-> l, right |-> r]

\* devices.conf entries the inventory is drawn from, in file order.
Catalogue ==
    << [nickname |-> "corne_left", vendor_id |-> Id_1d50, product_id |-> Id_615,
        keyboard_name |-> "corne",
        firmware |-> [standard |-> NoFirmware, nice_view_gem |-> NoFirmware]],
       [nickname |-> "corne_caps", vendor_id |-> Id_1D50, product_id |-> Id_615,
        keyboard_name |-> "corne",
        firmware |-> [standard |-> SidesFirmware("caps_left.uf2", "caps_right.uf2"),
                      nice_view_gem |-> SidesFirmware("caps_gem_left.uf2", "")]],
       [nickname |-> "corne_zero", vendor_id |-> Id_1d50, product_id |-> Id_0615,
        keyboard_name |-> "corne",
        firmware |-> [standard |-> SingleFirmware("dongle.uf2"),
                      nice_view_gem |-> NoFirmware]],
       [nickname |-> "no_ids",     vendor_id |-> None,    product_id |-> None,
        keyboard_name |-> "None",
        firmware |-> [standard |-> NoFirmware, nice_view_gem |-> NoFirmware]] >>

RECURSIVE Pick(_, _)
\* the entries of the catalogue whose index is in S, in catalogue order
Pick(S, i) ==
    IF i > Len(Catalogue) THEN <<>>
    ELSE (IF i \in S THEN <<Catalogue[i]>> ELSE <<>>) \o Pick(S, i + 1)

Inventories ==
    {Pick(S, 1) : S \in {T \in SUBSET (1..Len(Catalogue)) : Cardinality(T) <= MaxEntries}}

Nicknames(inv) == {inv[i].nickname : i \in 1..Len(inv)}

LoadOutcomes == {"ok", "notfound", "yamlerror", "nomapping"}

(***************************************************************************)
(* udevadm info --query=all --name <device>                                *)
(***************************************************************************)
\* The text after 'KEY=' on a property line.
RawValue(v, quoted) == IF quoted THEN <<Quote>> \o v \o <<Quote>> ELSE v

\* The lines of a successful query, each a key and the text after '='.
UdevInfo(d, quoted) ==
    << [key |-> "ATTR{removable}",
        raw |-> <<"=", Quote, IF d.removable THEN "1" ELSE "0", Quote>>],
       [key |-> "ID_BUS",
        raw |-> RawValue(IF d.usb THEN <<"u", "s", "b">> ELSE <<"a", "t", "a">>, quoted)] >>
    \o (IF d.vendor # None
        THEN <<[key |-> "ID_VENDOR_ID", raw |-> RawValue(d.vendor, quoted)]>>
        ELSE <<>>)
    \o (IF d.product # None
        THEN <<[key |-> "ID_MODEL_ID", raw |-> RawValue(d.product, quoted)]>>
        ELSE <<>>)

(***************************************************************************)
(* find_devices.py: main                                                   *)
(***************************************************************************)
RECURSIVE SplitEq1(_)
\* line.split('=')[1] applied to the text after the first '=' of the line:
\* everything up to the next '='
SplitEq1(raw) ==
    IF raw = <<>> \/ raw[1] = "=" THEN <<>>
    ELSE <<raw[1]>> \o SplitEq1(Tail(raw))

\* the value main (and verify_device) reads from a property line
LineValue(line) == Lower(StripQuotes(SplitEq1(line.raw)))

RECURSIVE ParseIds(_, _)
\* the loop over udev_info.splitlines(): the last line of each kind wins
ParseIds(lines, acc) ==
    IF lines = <<>> THEN acc
    ELSE LET line == Head(lines) IN
         ParseIds(Tail(lines),
            IF line.key \in {"ID_VENDOR_ID", "ID_USB_VENDOR_ID"}
            THEN [acc EXCEPT !.vendor_id = LineValue(line)]
            ELSE IF line.key \in {"ID_MODEL_ID", "ID_USB_MODEL_ID"}
            THEN [acc EXCEPT !.product_id = LineValue(line)]
            ELSE acc)

NoIds == [vendor_id |-> None, product_id |-> None]

\* Variant: the inventory's ids are compared as written, not lower-cased.
IdsMatch_case_sensitive(device_info, ids) ==
    /\ DictGet(device_info.vendor_id, <<>>) = ids.vendor_id
    /\ DictGet(device_info.product_id, <<>>) = ids.product_id

\* config_vendor_id == vendor_id and config_product_id == product_id
IdsMatch(device_info, ids) ==
    /\ Lower(DictGet(device_info.vendor_id, <<>>)) = ids.vendor_id
    /\ Lower(DictGet(device_info.product_id, <<>>)) = ids.product_id

RECURSIVE MatchEntries_first_only(_, _, _)
\* Variant: the loop over the inventory stops at the first matching entry.
MatchEntries_first_only(inv, ids, path) ==
    IF inv = <<>> THEN <<>>
    ELSE IF IdsMatch(Head(inv), ids)
         THEN << <<Head(inv).nickname, path>> >>
         ELSE MatchEntries_first_only(Tail(inv), ids, path)

RECURSIVE MatchEntries(_, _, _)
\* for nickname, device_info in devices_config.items(): append on a match
MatchEntries(inv, ids, path) ==
    IF inv = <<>> THEN <<>>
    ELSE (IF IdsMatch(Head(inv), ids)
          THEN << <<Head(inv).nickname, path>> >>
          ELSE <<>>)
         \o MatchEntries(Tail(inv), ids, path)

\* One pass of the body of 'for dev_path in Path('/sys/block').glob('sd*')':
\* the matches the device at position i adds.
ScanDevice(inv, d, path, quoted) ==
    IF ~d.ok THEN <<>>                      \* CalledProcessError: skipped
    ELSE LET ids == ParseIds(UdevInfo(d, quoted), NoIds) IN
         IF Truthy(ids.vendor_id) /\ Truthy(ids.product_id)
         THEN MatchEntries(inv, ids, path)
         ELSE <<>>

RECURSIVE ScanAll(_, _, _, _)
\* the whole scan loop, from device i on
ScanAll(inv, devs, i, quoted) ==
    IF i > Len(devs) THEN <<>>
    ELSE ScanDevice(inv, devs[i], DevPaths[i], quoted)
         \o ScanAll(inv, devs, i + 1, quoted)

\* 'Display results' without --debug: one line per match, the device path
ResultLines(matches) == [k \in DOMAIN matches |-> <<matches[k][2]>>]

\* find_devices.py without options
NoFlags == [debug |-> FALSE, list_all |-> FALSE, show_config |-> FALSE, raw_usb |-> FALSE]

\* the option combinations of find_devices.py that are explored
FindFlagSets ==
    {NoFlags,
     [NoFlags EXCEPT !.debug = TRUE],
     [NoFlags EXCEPT !.list_all = TRUE],
     [NoFlags EXCEPT !.show_config = TRUE],
     [NoFlags EXCEPT !.raw_usb = TRUE],
     [NoFlags EXCEPT !.debug = TRUE, !.list_all = TRUE]}

\* A printed line is a tuple of its parts: the literal text first, then the
\* nickname or path it names (the id text inside a diagnostic line is left
\* out).  The empty tuple is an empty line.

\* --show-config or --debug: the parsed inventory, one line per entry
ConfigLines(a, inv) ==
    IF a.show_config \/ a.debug
    THEN << <<>>, <<"Loaded device configurations:">> >>
         \o [k \in DOMAIN inv |-> <<"  ", inv[k].nickname, ": vendor_id= product_id=">>]
    ELSE <<>>

\* --raw-usb or --debug: what lsusb printed, or that it failed
UsbLines(a, lsusbOk) ==
    IF a.raw_usb \/ a.debug
    THEN << <<>>, <<"Raw USB device information:">> >>
         \o (IF lsusbOk
             THEN << <<"Bus 001 Device 001: ID 1d6b:0002 Linux Foundation 2.0 root hub">>,
                     <<>> >>
             ELSE << <<"Failed to run lsusb command">> >>)
    ELSE <<>>

\* --debug: 'ls -la /dev/sd*' is run without a shell, the pattern reaches ls
\* unexpanded and ls fails
BlockLines(a) ==
    IF a.debug
    THEN << <<>>, <<"Direct check of block devices:">>, <<"No /dev/sd* devices found">> >>
    ELSE <<>>

RECURSIVE CompareLines(_, _, _)
\* --debug: the lines of the loop over the inventory for one device
CompareLines(inv, ids, path) ==
    IF inv = <<>> THEN <<>>
    ELSE << <<"  Comparing with ", Head(inv).nickname>> >>
         \o (IF IdsMatch(Head(inv), ids)
             THEN << <<"  MATCH FOUND: ", Head(inv).nickname, " -> ", path>> >>
             ELSE <<>>)
         \o CompareLines(Tail(inv), ids, path)

\* --debug: the lines one pass of the scan loop prints
ScanDeviceLines(a, inv, d, path, quoted) ==
    IF ~a.debug THEN <<>>
    ELSE << <<"Checking potential bootloader device: ", path>> >>
         \o (IF ~d.ok
             THEN << <<"  Failed to get udev info for ", path>> >>
             ELSE LET ids == ParseIds(UdevInfo(d, quoted), NoIds) IN
                  IF Truthy(ids.vendor_id) /\ Truthy(ids.product_id)
                  THEN << <<"  Found device with vendor_id= product_id=">> >>
                       \o CompareLines(inv, ids, path)
                  ELSE <<>>)

\* if args.list_all: all_devices.append((vendor_id, product_id, device_path,
\* description)); no ID_MODEL line is modelled, the description stays "Unknown"
ScanDeviceAll(a, d, path, quoted) ==
    IF ~a.list_all \/ ~d.ok THEN <<>>
    ELSE LET ids == ParseIds(UdevInfo(d, quoted), NoIds) IN
         IF Truthy(ids.vendor_id) /\ Truthy(ids.product_id)
         THEN << [vendor_id |-> ids.vendor_id, product_id |-> ids.product_id,
                  device_path |-> path, description |-> "Unknown"] >>
         ELSE <<>>

RECURSIVE ScanAllLines(_, _, _, _, _)
\* what the whole scan loop prints, from device i on
ScanAllLines(a, inv, devs, i, quoted) ==
    IF i > Len(devs) THEN <<>>
    ELSE ScanDeviceLines(a, inv, devs[i], DevPaths[i], quoted)
         \o ScanAllLines(a, inv, devs, i + 1, quoted)

RECURSIVE ScanAllDevices(_, _, _, _)
\* all_devices after the whole scan loop, from device i on
ScanAllDevices(a, devs, i, quoted) ==
    IF i > Len(devs) THEN <<>>
    ELSE ScanDeviceAll(a, devs[i], DevPaths[i], quoted)
         \o ScanAllDevices(a, devs, i + 1, quoted)

\* Variant: the match lines carry the nickname in every mode.
MatchLines_always_named(a, matches) ==
    [k \in DOMAIN matches |-> <<matches[k][1], ": ", matches[k][2]>>]

\* for nickname, device_path in matching_devices: print(...)
MatchLines(a, matches) ==
    IF a.debug
    THEN [k \in DOMAIN matches |-> <<matches[k][1], ": ", matches[k][2]>>]
    ELSE ResultLines(matches)

\* 'Display all bootloader devices if requested'
AllDeviceLines(a, all) ==
    IF a.list_all /\ all # <<>>
    THEN << <<>>, <<"All bootloader devices:">> >>
         \o [k \in DOMAIN all |->
               <<all[k].device_path, " (vendor_id= product_id=) - ", all[k].description>>]
    ELSE <<>>

\* Variant: the 'no match' message is printed in every mode.
NoMatchLines_always(a, matches) ==
    IF matches = <<>>
    THEN << <<"No matching bootloader devices found">> >>
    ELSE <<>>

\* elif args.debug: print("No matching bootloader devices found")
NoMatchLines(a, matches) ==
    IF matches = <<>> /\ a.debug
    THEN << <<"No matching bootloader devices found">> >>
    ELSE <<>>

\* if args.debug and not matching_devices: three lines of advice
AdviceLines(a, matches) ==
    IF a.debug /\ matches = <<>>
    THEN << <<>>,
            <<"No matches found. Check if the device is in bootloader mode and properly connected.">>,
            <<"Also verify that the vendor_id and product_id in devices.conf match your device.">>,
            <<"You can use 'lsusb' to see connected USB devices and their IDs.">> >>
    ELSE <<>>

\* everything main prints after the scan loop
DisplayLines(a, matches, all) ==
    MatchLines(a, matches) \o NoMatchLines(a, matches)
    \o AllDeviceLines(a, all) \o AdviceLines(a, matches)

(***************************************************************************)
(* Directory trees of a build: the ZMK checkout, the two directories of    *)
(* the workspace under ~/.local/var, and sync_workspace between them.      *)
(***************************************************************************)
\* a directory that exists with the given files, and a path that is absent
Dir(files) == [exists |-> TRUE, files |-> files]
Absent == [exists |-> FALSE, files |-> {}]

\* sync_workspace: max_retries
max_retries == 3

\* sync_workspace(src, dst) with the outcomes of its file operations:
\* rm_failures is how many calls of shutil.rmtree(dst) in a row raise,
\* copy_ok whether shutil.copytree gets through on a free dst, cleanup_ok
\* whether shutil.rmtree(dst, ignore_errors=True) removes what is there.
\* A removal that raised leaves dst in place; copytree raises on a dst that
\* exists; a copy that raised has left a directory with part of the files.
SyncWorkspace(src, dst, rm_failures, copy_ok, cleanup_ok) ==
    IF ~src.exists
    THEN [dst |-> Dir(dst.files), raised |-> FALSE,
          rm_attempts |-> 0, copy_attempts |-> 0]
    ELSE LET rm_attempts == IF ~dst.exists THEN 0
                            ELSE IF rm_failures < max_retries THEN rm_failures + 1
                            ELSE max_retries
             after_rm == IF dst.exists /\ rm_failures >= max_retries THEN dst ELSE Absent
             copied == ~after_rm.exists /\ copy_ok
             partial == IF after_rm.exists THEN after_rm ELSE Dir({})
         IN [dst |-> IF copied THEN Dir(src.files)
                     ELSE IF cleanup_ok THEN Absent ELSE partial,
             raised |-> ~copied,
             rm_attempts |-> rm_attempts, copy_attempts |-> 1]

\* the outcomes of the file operations of one sync_workspace call
SyncOutcomes == [rm_failures : 0..max_retries, copy_ok : BOOLEAN, cleanup_ok : BOOLEAN]

Sync(src, dst, o) == SyncWorkspace(src, dst, o.rm_failures, o.copy_ok, o.cleanup_ok)

\* no call of sync_workspace observed
NoSync == [called |-> FALSE, src |-> Absent, before |-> Absent, after |-> Absent,
           raised |-> FALSE, rm_attempts |-> 0, copy_attempts |-> 0]

SyncObserved(src, dst, r) ==
    [called |-> TRUE, src |-> src, before |-> dst, after |-> r.dst,
     raised |-> r.raised, rm_attempts |-> r.rm_attempts,
     copy_attempts |-> r.copy_attempts]

(***************************************************************************)
(* The child of build_firmware and the two reader threads.  The child      *)
(* writes lines to its standard output and standard error, which are       *)
(* pipes; each reader thread takes the lines of one pipe in order and      *)
(* prints them.                                                            *)
(***************************************************************************)
BuildSides == {"left", "right"}
StreamNames == {"out", "err"}

\* the lines a build child writes to each stream, as far as it gets
ChildLines == [out |-> <<"out 1", "out 2">>, err |-> <<"err 1">>]

\* before Popen: no child, no pipes, no threads
NoStream ==
    [child |-> "none", returncode |-> -1,
     written |-> [st \in StreamNames |-> 0],
     pipe |-> [st \in StreamNames |-> <<>>],
     console |-> [st \in StreamNames |-> <<>>],
     reader |-> [st \in StreamNames |-> "none"]]

NoStreams == [side \in BuildSides |-> NoStream]

\* build_firmware returns or exits: the child, the pipes and the threads
\* were its locals; what is kept is which pipes still held lines
EndOfBuildFirmware(str, side) == [str EXCEPT ![side] = NoStream]
UnreadAtEnd(unr, str, side) ==
    [unr EXCEPT ![side] = {st \in StreamNames : str[side].pipe[st] # <<>>}]

\* a tool that builds nothing has no checkout and no workspace
NoWorkspace == zmk_source = Absent /\ ws_zmk = Absent /\ ws_root = Absent

flashKept == <<firmware_path, child_stdout, verify_obs, copy_argv>>

buildIdle == <<children, build_stats, ws_zmk, ws_root, results, streams,
               unread, stat_calls, sync_obs>>

flashIdle == <<device_path, verify, events, flash_result, flashKept, buildIdle>>

\* load_devices_config(): exit 1 unless the file is found and parses; then
\* the diagnostics main prints before the scan
find_load_devices_config ==
    /\ tool = "find_devices" /\ pc = "load"
    /\ IF configLoad = "ok"
       THEN /\ pc' = "scan" /\ exitCode' = exitCode
            /\ \E lsusbOk \in (IF args.raw_usb \/ args.debug THEN BOOLEAN ELSE {TRUE}) :
                  stdout' = stdout \o ConfigLines(args, inventory)
                                   \o UsbLines(args, lsusbOk) \o BlockLines(args)
       ELSE pc' = "done" /\ exitCode' = 1 /\ stdout' = stdout
    /\ UNCHANGED <<envVars, idx, matching_devices, all_devices, flashIdle, boot_result>>

\* Variant: a failed udevadm query ends the scan loop.
find_scan_device_aborts ==
    /\ tool = "find_devices" /\ pc = "scan"
    /\ idx <= Len(devices)
    /\ matching_devices' = matching_devices
           \o ScanDevice(inventory, devices[idx], DevPaths[idx], udevQuoted)
    /\ all_devices' = all_devices
           \o ScanDeviceAll(args, devices[idx], DevPaths[idx], udevQuoted)
    /\ stdout' = stdout
           \o ScanDeviceLines(args, inventory, devices[idx], DevPaths[idx], udevQuoted)
    /\ idx' = IF devices[idx].ok THEN idx + 1 ELSE Len(devices) + 1
    /\ UNCHANGED <<envVars, pc, exitCode, flashIdle, boot_result>>

\* one iteration of the scan loop of main
find_scan_device ==
    /\ tool = "find_devices" /\ pc = "scan"
    /\ idx <= Len(devices)
    /\ matching_devices' = matching_devices
           \o ScanDevice(inventory, devices[idx], DevPaths[idx], udevQuoted)
    /\ all_devices' = all_devices
           \o ScanDeviceAll(args, devices[idx], DevPaths[idx], udevQuoted)
    /\ stdout' = stdout
           \o ScanDeviceLines(args, inventory, devices[idx], DevPaths[idx], udevQuoted)
    /\ idx' = idx + 1
    /\ UNCHANGED <<envVars, pc, exitCode, flashIdle, boot_result>>

\* Variant: an empty match list is reported as a failure.
find_display_results_nomatch_fails ==
    /\ tool = "find_devices" /\ pc = "scan"
    /\ idx > Len(devices)
    /\ stdout' = stdout \o DisplayLines(args, matching_devices, all_devices)
    /\ pc' = "done"
    /\ exitCode' = IF matching_devices = <<>> THEN 1 ELSE 0
    /\ UNCHANGED <<envVars, idx, matching_devices, all_devices, flashIdle, boot_result>>

\* 'Display results' and the return of main
find_display_results ==
    /\ tool = "find_devices" /\ pc = "scan"
    /\ idx > Len(devices)
    /\ stdout' = stdout \o DisplayLines(args, matching_devices, all_devices)
    /\ pc' = "done"
    /\ exitCode' = 0
    /\ UNCHANGED <<envVars, idx, matching_devices, all_devices, flashIdle, boot_result>>

(***************************************************************************)
(* find_devices.py: check_bootloader_device                                *)
(***************************************************************************)
\* sub in s (Python substring test)
Contains(s, sub) ==
    \E i \in 1..(Len(s) - Len(sub) + 1) : SubSeq(s, i, i + Len(sub) - 1) = sub

\* s.startswith(prefix)
StartsWith(s, prefix) ==
    Len(s) >= Len(prefix) /\ SubSeq(s, 1, Len(prefix)) = prefix

RECURSIVE HexRunEnd(_, _)
\* index of the last character of the run of hex digits that starts at j
\* (j - 1 when s[j] is no hex digit)
HexRunEnd(s, j) ==
    IF j <= Len(s) /\ s[j] \in HexChars THEN HexRunEnd(s, j + 1) ELSE j - 1

\* re.search(r'=\"([\da-fA-F]+)\"', line): group 1 of the leftmost match, or
\* None; s is the line from its first '=' on
SearchQuotedHex(s) ==
    LET Hit(i) == /\ i + 3 <= Len(s)
                  /\ s[i] = "=" /\ s[i + 1] = Quote
                  /\ HexRunEnd(s, i + 2) >= i + 2
                  /\ HexRunEnd(s, i + 2) < Len(s)
                  /\ s[HexRunEnd(s, i + 2) + 1] = Quote
        hits == {i \in 1..Len(s) : Hit(i)}
    IN  IF hits = {} THEN None
        ELSE LET i == CHOOSE k \in hits : \A m \in hits : k <= m
             IN  SubSeq(s, i + 2, HexRunEnd(s, i + 2))

\* the line from its first '=' on
FromEq(line) == <<"=">> \o line.raw

NoProps == [removable |-> FALSE, is_usb |-> FALSE,
            vendor_id |-> None, product_id |-> None]

RECURSIVE BootParse(_, _)
\* the if / elif chain over udev_info.splitlines()
BootParse(lines, acc) ==
    IF lines = <<>> THEN acc
    ELSE LET line == Head(lines)
             m    == SearchQuotedHex(FromEq(line))
         IN
         BootParse(Tail(lines),
            IF line.key = "ATTR{removable}"
               /\ Contains(FromEq(line), <<"=", Quote, "1", Quote>>)
            THEN [acc EXCEPT !.removable = TRUE]
            ELSE IF line.key = "ID_BUS"
                    /\ StartsWith(FromEq(line), <<"=", Quote, "u", "s", "b", Quote>>)
            THEN [acc EXCEPT !.is_usb = TRUE]
            ELSE IF line.key \in {"ID_VENDOR_ID", "ID_USB_VENDOR_ID"}
            THEN (IF m # None THEN [acc EXCEPT !.vendor_id = Lower(m)] ELSE acc)
            ELSE IF line.key \in {"ID_MODEL_ID", "ID_USB_MODEL_ID"}
            THEN (IF m # None THEN [acc EXCEPT !.product_id = Lower(m)] ELSE acc)
            ELSE acc)

\* the returned tuple (is_bootloader, vendor_id, product_id)
BootloaderResult(d, quoted) ==
    IF ~d.ok THEN <<FALSE, None, None>>       \* CalledProcessError
    ELSE LET p == BootParse(UdevInfo(d, quoted), NoProps) IN
         IF p.removable /\ p.is_usb /\ Truthy(p.vendor_id) /\ Truthy(p.product_id)
         THEN <<TRUE, p.vendor_id, p.product_id>>
         ELSE <<FALSE, None, None>>

check_bootloader_device ==
    /\ tool = "check_bootloader" /\ pc = "call"
    /\ boot_result' = BootloaderResult(devices[1], udevQuoted)
    /\ pc' = "done"
    /\ UNCHANGED <<envVars, idx, matching_devices, all_devices, stdout, exitCode, flashIdle>>

\* every combination of the four signals, and the failing query
BootDescriptors ==
    [ok : {TRUE}, vendor : VendorIds \cup {None}, product : ProductIds \cup {None},
     removable : BOOLEAN, usb : BOOLEAN]
    \cup {FailingDescriptor}

(***************************************************************************)
(* flash_firmware.py                                                       *)
(***************************************************************************)
findIdle == <<idx, matching_devices, boot_result, all_devices, buildIdle>>

\* the entry of the inventory with the given nickname
Entry(inv, name) == inv[CHOOSE i \in 1..Len(inv) : inv[i].nickname = name]

\* position of a device path in the glob order
PathIndex(path) == CHOOSE i \in 1..Len(DevPaths) : DevPaths[i] = path

\* os.path.join(a, b): b alone when b is absolute, else b under a
PathJoin(a, b) == IF b # <<>> /\ b[1] = "/" THEN b ELSE a \o b

\* firmware_type of main: "standard" for default, "nice_view_gem" for gem
FirmwareType(variant) == IF variant = "default" THEN "standard" ELSE "nice_view_gem"

\* f"{keyboard_name}_{args.side}.uf2"
FallbackName(keyboard_name, side) ==
    IF keyboard_name = "corne"
    THEN (IF side = "left" THEN "corne_left.uf2" ELSE "corne_right.uf2")
    ELSE (IF side = "left" THEN "_left.uf2" ELSE "_right.uf2")

\* the resolution that names the fallback file where the side has none
FirmwareFile_fallback_for_side(device_config, side, variant) ==
    LET fc == IF FirmwareType(variant) = "standard"
              THEN device_config.firmware.standard
              ELSE device_config.firmware.nice_view_gem
        file == IF side = "left" THEN fc.left ELSE fc.right
    IN IF fc.kind = "sides" /\ file # "" THEN file
       ELSE IF fc.kind = "single" THEN fc.file
       ELSE FallbackName(device_config.keyboard_name, side)

\* 'Get firmware filename from config': "" when the side has no file
FirmwareFile(device_config, side, variant) ==
    LET fc == IF FirmwareType(variant) = "standard"
              THEN device_config.firmware.standard
              ELSE device_config.firmware.nice_view_gem
    IN IF fc.kind = "sides" THEN (IF side = "left" THEN fc.left ELSE fc.right)
       ELSE IF fc.kind = "single" THEN fc.file
       ELSE FallbackName(device_config.keyboard_name, side)

\* os.path.join(os.path.join(root_dir, "results"), firmware_file)
FirmwarePath(firmware_file) ==
    PathJoin(PathJoin(<<"/", "CorneZMK">>, <<"results">>), <<firmware_file>>)

\* main, from the validation of --side to the 'Flashing ...' line
flash_main_config ==
    /\ tool = "flash_firmware" /\ pc = "load"
    /\ LET fail(lines) == /\ stdout' = stdout \o lines
                          /\ pc' = "done" /\ exitCode' = 1
                          /\ firmware_path' = firmware_path
       IN IF args.side \notin {"left", "right"}
          THEN fail(<< <<"Error: Side must be 'left' or 'right', got ", args.side>> >>)
          ELSE IF args.variant \notin {"default", "gem"}
          THEN fail(<< <<"Error: Variant must be 'default' or 'gem', got ", args.variant>> >>)
          ELSE IF configLoad = "noroot"
          THEN fail(<< <<"Error: Cannot determine CorneZMK root directory">>,
                       <<"Please run this script from the CorneZMK directory or its scripts subdirectory">> >>)
          ELSE IF configLoad \in {"notfound", "yamlerror"}
          THEN fail(<< <<"Error loading devices configuration">> >>)
          ELSE IF configLoad # "ok"
          THEN fail(<<>>)
          ELSE IF device_name \notin Nicknames(inventory)
          THEN fail(<< <<"Error: Device not found in devices.conf: ", device_name>>,
                       <<"Available devices:">> >>
                    \o [k \in DOMAIN inventory |-> <<"  - ", inventory[k].nickname>>])
          ELSE IF Entry(inventory, device_name).keyboard_name = "None"
          THEN fail(<< <<"Error: No keyboard_name specified for device ", device_name>> >>)
          ELSE LET firmware_file ==
                       FirmwareFile(Entry(inventory, device_name), args.side, args.variant)
               IN IF firmware_file = ""
                  THEN fail(<< <<"Error: No firmware file specified for side with variant ",
                                 args.side, args.variant>> >>)
                  ELSE /\ firmware_path' = FirmwarePath(firmware_file)
                       /\ stdout' = Append(stdout,
                              <<"Flashing side with firmware: ", args.side, args.variant,
                                firmware_file>>)
                       /\ pc' = "find" /\ exitCode' = exitCode
    /\ UNCHANGED <<envVars, findIdle, device_path, verify, events, flash_result,
                   child_stdout, verify_obs, copy_argv>>

\* line.startswith('/dev/')
StartsWithDev(line) == line # <<>> /\ \E i \in 1..Len(DevPaths) : line[1] = DevPaths[i]

\* [line for line in output.split('\n') if line.startswith('/dev/')]
DevicePathLines(lines) == SelectSeq(lines, StartsWithDev)

\* everything a run of find_devices.py prints on standard output
FindDevicesStdout(a, inv, devs, quoted, lsusbOk) ==
    ConfigLines(a, inv) \o UsbLines(a, lsusbOk) \o BlockLines(a)
    \o ScanAllLines(a, inv, devs, 1, quoted)
    \o DisplayLines(a, ScanAll(inv, devs, 1, quoted), ScanAllDevices(a, devs, 1, quoted))

RECURSIVE LStripLines(_)
LStripLines(lines) ==
    IF lines # <<>> /\ Head(lines) = <<>> THEN LStripLines(Tail(lines)) ELSE lines

RECURSIVE RStripLines(_)
RStripLines(lines) ==
    IF lines # <<>> /\ lines[Len(lines)] = <<>>
    THEN RStripLines(SubSeq(lines, 1, Len(lines) - 1)) ELSE lines

\* result.stdout.strip().split('\n'): the lines without the empty lines at
\* either end
OutputLines(lines) == RStripLines(LStripLines(lines))

\* Variant: nothing is printed when no device is found.
NotFoundLines_silent(debug, output) == <<>>

\* if not device_paths: print("No bootloader device found"), and the child's
\* output in debug mode
NotFoundLines(debug, output) ==
    << <<"No bootloader device found">> >>
    \o (IF ~debug THEN <<>>
        ELSE IF output = <<>> THEN << <<"find_devices.py output: ">> >>
        ELSE << <<"find_devices.py output: ">> \o Head(output) >> \o Tail(output))

\* Variant: the last '/dev/' line is used.
SelectDevicePath_last(device_paths) == device_paths[Len(device_paths)][1]

\* 'Use the first device found': device_paths[0]
SelectDevicePath(device_paths) == device_paths[1][1]

\* find_device(): run find_devices.py (with --debug in debug mode), take the
\* first '/dev/' line it printed
flash_find_device ==
    /\ tool = "flash_firmware" /\ pc = "find"
    /\ \E lsusbOk \in (IF args.debug THEN BOOLEAN ELSE {TRUE}) :
         LET child == FindDevicesStdout([NoFlags EXCEPT !.debug = args.debug],
                                        inventory, devices, udevQuoted, lsusbOk)
             output == OutputLines(child)
             device_paths == DevicePathLines(output)
         IN /\ child_stdout' = [ran |-> TRUE, lines |-> child]
            /\ IF device_paths = <<>>
               THEN /\ stdout' = stdout \o NotFoundLines(args.debug, output)
                    /\ pc' = "done" /\ exitCode' = 1
                    /\ device_path' = device_path
               ELSE /\ device_path' = SelectDevicePath(device_paths)
                    /\ stdout' = Append(stdout, <<"Found bootloader device:",
                                                  SelectDevicePath(device_paths)>>)
                    /\ pc' = "verify" /\ exitCode' = exitCode
    /\ UNCHANGED <<envVars, findIdle, verify, events, flash_result,
                   firmware_path, verify_obs, copy_argv>>

RECURSIVE VerifyParseIds(_, _)
\* verify_device: the loop over udev_info.stdout.splitlines()
VerifyParseIds(lines, acc) ==
    IF lines = <<>> THEN acc
    ELSE LET line == Head(lines) IN
         VerifyParseIds(Tail(lines),
            IF line.key \in {"ID_VENDOR_ID", "ID_USB_VENDOR_ID"}
            THEN [acc EXCEPT !.vendor_id = LineValue(line)]
            ELSE IF line.key \in {"ID_MODEL_ID", "ID_USB_MODEL_ID"}
            THEN [acc EXCEPT !.product_id = LineValue(line)]
            ELSE acc)

\* vendor_id != expected vendor or product_id != expected product
VerifyMismatch(device_config, ids) ==
    \/ ids.vendor_id # Lower(DictGet(device_config.vendor_id, <<>>))
    \/ ids.product_id # Lower(DictGet(device_config.product_id, <<>>))

Responses == {<<"y">>, <<"Y">>, <<"n">>, <<>>}

\* what verify_device saw: whether the path exists, whether udevadm
\* succeeded, the ids it parsed, whether it asked, and the answer
NotVerified ==
    [called |-> FALSE, exists |-> FALSE, queried |-> FALSE, ids |-> NoIds,
     asked |-> FALSE, response |-> <<>>]

\* Variant: the ids are not compared, every device that can be queried passes.
VerifyOutcome_unchecked(exists, queried, mismatch, response) ==
    IF ~exists THEN "missing"
    ELSE IF ~queried THEN "udev_failed"
    ELSE "matched"

\* how verify_device ends
VerifyOutcome(exists, queried, mismatch, response) ==
    IF ~exists THEN "missing"
    ELSE IF ~queried THEN "udev_failed"
    ELSE IF ~mismatch THEN "matched"
    ELSE IF Lower(response) = <<"y">> THEN "override"
    ELSE "rejected"

\* verify_device(): exit 1 unless the device exists, can be queried, and
\* either has the expected ids or the operator answers y
flash_verify_device ==
    /\ tool = "flash_firmware" /\ pc = "verify"
    /\ LET d   == devices[PathIndex(device_path)]
           ids == VerifyParseIds(UdevInfo(d, udevQuoted), NoIds)
           mismatch == VerifyMismatch(Entry(inventory, device_name), ids)
       IN \E pathExists \in BOOLEAN :
          \E udevOk \in (IF pathExists THEN BOOLEAN ELSE {FALSE}) :
          \E response \in (IF pathExists /\ udevOk /\ mismatch THEN Responses ELSE {<<>>}) :
            LET how == VerifyOutcome(pathExists, udevOk, mismatch, response)
            IN /\ verify' = how
               /\ verify_obs' =
                     [called |-> TRUE, exists |-> pathExists, queried |-> udevOk,
                      ids |-> IF udevOk THEN ids ELSE NoIds,
                      asked |-> how \in {"override", "rejected"},
                      response |-> response]
               /\ IF how \in {"matched", "override"}
                  THEN pc' = "check_firmware" /\ exitCode' = exitCode
                  ELSE pc' = "done" /\ exitCode' = 1
               /\ stdout' = stdout
                     \o (IF udevOk /\ args.debug
                         THEN << <<"Found device: vendor_id= product_id=">>,
                                 <<"Expected: vendor_id= product_id=">> >>
                         ELSE <<>>)
                     \o (IF how \in {"override", "rejected"}
                         THEN << <<"Warning: Device does not match expected configuration">> >>
                         ELSE <<>>)
    /\ UNCHANGED <<envVars, findIdle, device_path, events, flash_result,
                   firmware_path, child_stdout, copy_argv>>

\* an external step: the command, whether it succeeded, whether the try block
\* or the except handler issued it, and its argument
Step(cmd, ok, phase, arg) == [cmd |-> cmd, ok |-> ok, phase |-> phase, arg |-> arg]

\* Variant: the mount point is created before the firmware check.
flash_check_firmware_late ==
    /\ tool = "flash_firmware" /\ pc = "check_firmware"
    /\ events' = Append(events, Step("makedirs", TRUE, "try", <<>>))
    /\ IF ~firmware_isfile
       THEN /\ stdout' = Append(stdout, <<"Error: Firmware file not found">>)
            /\ pc' = "done" /\ exitCode' = 1
       ELSE /\ stdout' = Append(stdout, <<"Found bootloader device at:", device_path>>)
            /\ pc' = "mount" /\ exitCode' = exitCode
    /\ UNCHANGED <<envVars, findIdle, device_path, verify, flash_result, flashKept>>

\* flash_firmware(): the firmware check and os.makedirs(mount_point)
flash_check_firmware ==
    /\ tool = "flash_firmware" /\ pc = "check_firmware"
    /\ IF ~firmware_isfile
       THEN /\ stdout' = Append(stdout, <<"Error: Firmware file not found">>)
            /\ pc' = "done" /\ exitCode' = 1
            /\ events' = events
       ELSE /\ stdout' = Append(stdout, <<"Found bootloader device at:", device_path>>)
            /\ events' = Append(events, Step("makedirs", TRUE, "try", <<>>))
            /\ pc' = "mount" /\ exitCode' = exitCode
    /\ UNCHANGED <<envVars, findIdle, device_path, verify, flash_result, flashKept>>

\* subprocess.run(['sudo', 'mount', device_path, mount_point], check=True)
flash_mount ==
    /\ tool = "flash_firmware" /\ pc = "mount"
    /\ \E ok \in BOOLEAN :
         /\ events' = Append(events, Step("mount", ok, "try", <<device_path>>))
         /\ pc' = IF ok THEN "copy" ELSE "except"
    /\ stdout' = Append(stdout, <<"Mounting", device_path>>)
    /\ UNCHANGED <<envVars, findIdle, exitCode, device_path, verify, flash_result, flashKept>>

\* Variant: the file is copied under the default mount point whatever
\* --mount-point says.
CopyDestination_default_mount(mount_point, destination_name) ==
    PathJoin(DEFAULT_MOUNT_POINT, destination_name)

\* os.path.join(mount_point, destination_name)
CopyDestination(mount_point, destination_name) ==
    PathJoin(mount_point, destination_name)

\* Variant: the copy is run with check=False, its failure goes unnoticed.
flash_copy_unchecked ==
    /\ tool = "flash_firmware" /\ pc = "copy"
    /\ \E ok \in BOOLEAN :
         /\ events' = Append(events, Step("cp", ok, "try", <<>>))
         /\ pc' = "settle"
    /\ copy_argv' = Append(copy_argv,
          [src |-> firmware_path,
           dst |-> CopyDestination(args.mount_point, DEFAULT_DESTINATION_FIRMWARE_NAME)])
    /\ stdout' = Append(stdout, <<"Copying firmware">>)
    /\ UNCHANGED <<envVars, findIdle, exitCode, device_path, verify, flash_result,
                   firmware_path, child_stdout, verify_obs>>

\* subprocess.run(['sudo', 'cp', firmware_path, destination], check=True)
flash_copy ==
    /\ tool = "flash_firmware" /\ pc = "copy"
    /\ \E ok \in BOOLEAN :
         /\ events' = Append(events, Step("cp", ok, "try", <<>>))
         /\ pc' = IF ok THEN "settle" ELSE "except"
    /\ copy_argv' = Append(copy_argv,
          [src |-> firmware_path,
           dst |-> CopyDestination(args.mount_point, DEFAULT_DESTINATION_FIRMWARE_NAME)])
    /\ stdout' = Append(stdout, <<"Copying firmware">>)
    /\ UNCHANGED <<envVars, findIdle, exitCode, device_path, verify, flash_result,
                   firmware_path, child_stdout, verify_obs>>

\* Variant: the settle wait is left out.
flash_settle_skipped ==
    /\ tool = "flash_firmware" /\ pc = "settle"
    /\ events' = events
    /\ stdout' = Append(stdout, <<"Flashing firmware... please wait">>)
    /\ pc' = "unmount"
    /\ UNCHANGED <<envVars, findIdle, exitCode, device_path, verify, flash_result, flashKept>>

\* time.sleep(ready_time)
flash_settle ==
    /\ tool = "flash_firmware" /\ pc = "settle"
    /\ events' = Append(events, Step("sleep", TRUE, "try", <<ready_time>>))
    /\ stdout' = Append(stdout, <<"Flashing firmware... please wait">>)
    /\ pc' = "unmount"
    /\ UNCHANGED <<envVars, findIdle, exitCode, device_path, verify, flash_result, flashKept>>

\* subprocess.run(['sudo', 'umount', mount_point], check=True), then
\* 'Flashing complete!', return True, and main returns
flash_unmount ==
    /\ tool = "flash_firmware" /\ pc = "unmount"
    /\ \E ok \in BOOLEAN :
         /\ events' = Append(events, Step("umount", ok, "try", <<>>))
         /\ IF ok
            THEN /\ stdout' = stdout \o << <<"Unmounting device">>, <<"Flashing complete!">> >>
                 /\ flash_result' = TRUE
                 /\ pc' = "done" /\ exitCode' = 0
            ELSE /\ stdout' = Append(stdout, <<"Unmounting device">>)
                 /\ flash_result' = flash_result
                 /\ pc' = "except" /\ exitCode' = exitCode
    /\ UNCHANGED <<envVars, findIdle, device_path, verify, flashKept>>

\* except subprocess.CalledProcessError: umount with check=False inside a
\* bare try/except, then sys.exit(1)
flash_except ==
    /\ tool = "flash_firmware" /\ pc = "except"
    /\ \E ok \in BOOLEAN :
         events' = Append(events, Step("umount", ok, "except", <<>>))
    /\ stdout' = Append(stdout, <<"Error flashing firmware">>)
    /\ pc' = "done" /\ exitCode' = 1
    /\ UNCHANGED <<envVars, findIdle, device_path, verify, flash_result, flashKept>>

InitCommon ==
    /\ idx = 1
    /\ matching_devices = <<>>
    /\ stdout = <<>>
    /\ exitCode = -1
    /\ device_path = None
    /\ verify = "none"
    /\ events = <<>>
    /\ flash_result = FALSE
    /\ boot_result = <<>>
    /\ all_devices = <<>>
    /\ firmware_path = <<>>
    /\ child_stdout = [ran |-> FALSE, lines |-> <<>>]
    /\ verify_obs = NotVerified
    /\ copy_argv = <<>>
    /\ children = <<>>
    /\ build_stats = <<>>
    /\ results = {}
    /\ streams = NoStreams
    /\ unread = [side \in BuildSides |-> {}]
    /\ stat_calls = <<>>
    /\ sync_obs = NoSync

InitFind ==
    /\ tool = "find_devices"
    /\ pc = "load"
    /\ configLoad \in LoadOutcomes
    /\ args \in FindFlagSets
    /\ IF configLoad = "ok"
       THEN /\ inventory \in Inventories
            /\ IF args = NoFlags
               THEN \/ devices \in DeviceLists(Descriptors) /\ udevQuoted = FALSE
                    \/ devices \in ShortDeviceLists(Descriptors) /\ udevQuoted = TRUE
               ELSE IF args.list_all /\ ~args.debug
               THEN devices \in ShortDeviceLists(Descriptors) /\ udevQuoted = FALSE
               ELSE devices \in ShortDeviceLists(ShapedDescriptors) /\ udevQuoted = FALSE
       ELSE inventory = <<>> /\ devices = <<>> /\ udevQuoted = FALSE
    /\ device_name = "none"
    /\ firmware_isfile = FALSE
    /\ ready_time = DEFAULT_READY_TIME
    /\ NoWorkspace
    /\ InitCommon

InitBoot ==
    /\ tool = "check_bootloader"
    /\ pc = "call"
    /\ configLoad = "ok"
    /\ inventory = <<>>
    /\ devices \in [1..1 -> BootDescriptors]
    /\ udevQuoted \in BOOLEAN
    /\ args = NoFlags
    /\ device_name = "none"
    /\ firmware_isfile = FALSE
    /\ ready_time = DEFAULT_READY_TIME
    /\ NoWorkspace
    /\ InitCommon

\* --ready-time: the default and one other value
ReadyTimes == {DEFAULT_READY_TIME, OtherReadyTime}

DeviceNames == {Catalogue[i].nickname : i \in 1..Len(Catalogue)} \cup {DEFAULT_DEVICE}

\* a --mount-point other than the default
OtherMountPoint == <<"/", "mnt", "kbd">>

\* flash_firmware.py without --side, --variant, --debug and --mount-point
DefaultOptions ==
    [side |-> DEFAULT_SIDE, variant |-> DEFAULT_VARIANT, debug |-> FALSE,
     mount_point |-> DEFAULT_MOUNT_POINT]

Sides == {"left", "right", "middle"}
Variants == {"default", "gem", "oled"}

\* every --side, --variant and --mount-point, without --debug
FlashOptionSets ==
    [side : Sides, variant : Variants, debug : {FALSE},
     mount_point : {DEFAULT_MOUNT_POINT, OtherMountPoint}]

\* find_root_dir(script_dir) returns None, or what load_devices_config yields
FlashLoadOutcomes == LoadOutcomes \cup {"noroot"}

\* Runs with the default options see every list of devices; runs with
\* --debug or another settle time see the shorter lists, runs with another
\* side, variant or mount point at most one device.
InitFlash ==
    /\ tool = "flash_firmware"
    /\ pc = "load"
    /\ configLoad \in FlashLoadOutcomes
    /\ IF configLoad = "ok"
       THEN /\ inventory \in Inventories
            /\ device_name \in DeviceNames
            /\ \/ /\ args = DefaultOptions
                  /\ devices \in DeviceLists(ShapedDescriptors)
                  /\ firmware_isfile \in BOOLEAN
                  /\ ready_time = DEFAULT_READY_TIME
               \/ /\ args = DefaultOptions
                  /\ devices \in ShortDeviceLists(ShapedDescriptors)
                  /\ firmware_isfile = TRUE
                  /\ ready_time \in ReadyTimes \ {DEFAULT_READY_TIME}
               \/ /\ args = [DefaultOptions EXCEPT !.debug = TRUE]
                  /\ devices \in ShortDeviceLists(ShapedDescriptors)
                  /\ firmware_isfile = TRUE
                  /\ ready_time = DEFAULT_READY_TIME
               \/ /\ args \in FlashOptionSets \ {DefaultOptions}
                  /\ devices \in {<<>>} \cup {<<d>> : d \in ShapedDescriptors}
                  /\ firmware_isfile \in BOOLEAN
                  /\ ready_time = DEFAULT_READY_TIME
       ELSE /\ inventory = <<>> /\ devices = <<>>
            /\ device_name = DEFAULT_DEVICE /\ firmware_isfile = FALSE
            /\ args \in {DefaultOptions, [DefaultOptions EXCEPT !.side = "middle"]}
            /\ ready_time = DEFAULT_READY_TIME
    /\ udevQuoted = FALSE
    /\ NoWorkspace
    /\ InitCommon

(***************************************************************************)
(* build.py and build-local.py: the steps of a build                       *)
(*                                                                         *)
(* A run of build.py starts at the call of setup_zmk, with the ZMK         *)
(* checkout main found and the device and shield it validated; a run of    *)
(* build-local.py starts at the first build_side.  A child is recorded     *)
(* when the script has waited for it: what it ran, for which side and its  *)
(* exit code.  The child of build_firmware and the two reader threads take *)
(* their steps between Popen and the end of build_firmware.                *)
(* The children of setup_zmk are recorded with their exit code only.       *)
(***************************************************************************)
\* exit codes of a child: success and two different failures
ChildCodes == {0, 1, 2}

CodeText(rc) == CASE rc = 0 -> "0" [] rc = 1 -> "1" [] OTHER -> "2"

Child(cmd, side, returncode) == [cmd |-> cmd, side |-> side, returncode |-> returncode]

\* the --left-only / --right-only combinations
BuildOptionSets == [left_only : BOOLEAN, right_only : BOOLEAN]

\* build.py main: build_left, build_right
BuildsSide(a, side) == IF side = "left" THEN ~a.right_only ELSE ~a.left_only

otherIdle == <<idx, matching_devices, boot_result, all_devices,
               device_path, verify, events, flash_result, flashKept>>

\* positions of main around the build of one side
Pc == [left  |-> [build |-> "build_left", popen |-> "popen_left",
                  wait |-> "wait_left", join |-> "join_left"],
       right |-> [build |-> "build_right", popen |-> "popen_right",
                  wait |-> "wait_right", join |-> "join_right"]]

\* where main goes after the build of a side
AfterSide(side) ==
    IF side = "left" THEN Pc["right"].build
    ELSE IF tool = "build" THEN "copy" ELSE "summary"

\* the project root as main leaves it before the builds: config, and a
\* build directory that main has emptied
RootSource == Dir({"config"})

\* <build dir>/<keyboard>_<side><suffix>/zephyr/zmk.uf2 of a side, relative
\* to the directory the build command runs against
Artifact(side) ==
    IF side = "left" THEN "build/left/zephyr/zmk.uf2" ELSE "build/right/zephyr/zmk.uf2"

\* what setup_zmk puts into the ZMK tree: west init, the copy of west.yml,
\* west update
SetupFiles == {".west/config", "app/west.yml", "modules"}

\* shield_suffix of main
ShieldSuffix(shield_type) == IF shield_type = "nice_view_gem" THEN "_gem" ELSE ""

\* f"{keyboard_name}_{side}{shield_suffix}.uf2"
BuildFallbackName(keyboard_name, side, shield_suffix) ==
    IF shield_suffix = ""
    THEN FallbackName(keyboard_name, side)
    ELSE IF keyboard_name = "corne"
    THEN (IF side = "left" THEN "corne_left_gem.uf2" ELSE "corne_right_gem.uf2")
    ELSE (IF side = "left" THEN "_left_gem.uf2" ELSE "_right_gem.uf2")

\* build.py main, 'Get firmware filenames from config': result_firmware_left
\* and result_firmware_right
ResultFirmware(device_config, side, shield_type) ==
    LET fc == IF shield_type = "nice_view"
              THEN device_config.firmware.standard
              ELSE device_config.firmware.nice_view_gem
        fallback == BuildFallbackName(device_config.keyboard_name, side,
                                      ShieldSuffix(shield_type))
    IN IF fc.kind = "sides"
       THEN (IF side = "left"
             THEN (IF fc.left = "" THEN fallback ELSE fc.left)
             ELSE (IF fc.right = "" THEN fallback ELSE fc.right))
       ELSE IF fc.kind = "single" THEN fc.file
       ELSE fallback

\* build-local.py build_side: f"{keyboard_name}_{side}-nice_nano_v2-zmk.uf2"
LocalResultFirmware(side) ==
    IF side = "left" THEN "corne_left-nice_nano_v2-zmk.uf2"
    ELSE "corne_right-nice_nano_v2-zmk.uf2"

\* an exception nobody catches: traceback, exit status 1
Uncaught == pc' = "done" /\ exitCode' = 1

\* setup_zmk, up to the ownership check: sync the checkout into the
\* workspace, git clone (check=True) when the copy has no app directory,
\* chown when files belong to root, which exits 1 when it fails
build_setup_sync ==
    /\ tool = "build" /\ pc = "setup_sync"
    /\ \E o \in SyncOutcomes, clone_rc \in ChildCodes, chown_ok \in BOOLEAN :
         LET r == Sync(zmk_source, ws_zmk, o)
             clone == "app" \notin r.dst.files
         IN IF r.raised
            THEN /\ ws_zmk' = r.dst /\ Uncaught
                 /\ UNCHANGED <<children, stdout>>
            ELSE IF clone /\ clone_rc # 0
            THEN /\ ws_zmk' = r.dst /\ Uncaught
                 /\ children' = Append(children, Child("git clone", "none", clone_rc))
                 /\ stdout' = Append(stdout, <<"ZMK not found. Cloning ZMK repository...">>)
            ELSE /\ ws_zmk' = Dir(r.dst.files \cup {"app"})
                 /\ children' = IF clone
                                THEN Append(children, Child("git clone", "none", 0))
                                ELSE children
                 /\ IF ~chown_ok
                    THEN /\ stdout' = stdout \o
                              << <<"Fixing ZMK directory ownership...">>,
                                 <<"Error: Failed to fix ZMK directory ownership.">> >>
                         /\ pc' = "done" /\ exitCode' = 1
                    ELSE /\ stdout' = stdout
                         /\ pc' = "west_init" /\ exitCode' = exitCode
    /\ UNCHANGED <<envVars, otherIdle, build_stats, ws_root, results, streams,
                   unread, stat_calls, sync_obs>>

\* setup_zmk: 'Initialize ZMK workspace if needed', west init in docker;
\* process.wait(), a non-zero code prints the code and calls sys.exit(1)
build_setup_west_init ==
    /\ tool = "build" /\ pc = "west_init"
    /\ IF ".west/config" \in ws_zmk.files
       THEN /\ pc' = "west_update"
            /\ UNCHANGED <<children, ws_zmk, stdout, exitCode>>
       ELSE \E rc \in ChildCodes :
            /\ children' = Append(children, Child("west init", "none", rc))
            /\ IF rc # 0
               THEN /\ stdout' = stdout \o
                         << <<"Initializing ZMK workspace...">>,
                            <<"Error: Command failed (exit code ", CodeText(rc)>> >>
                    /\ pc' = "done" /\ exitCode' = 1
                    /\ ws_zmk' = ws_zmk
               ELSE /\ stdout' = stdout
                    /\ pc' = "west_update" /\ exitCode' = exitCode
                    /\ ws_zmk' = Dir(ws_zmk.files \cup {".west/config"})
    /\ UNCHANGED <<envVars, otherIdle, build_stats, ws_root, results, streams,
                   unread, stat_calls, sync_obs>>

\* setup_zmk: the copy of config/west.yml into the tree, the docker test
\* command, whose exit code is only logged, then west update in docker; a
\* non-zero code of west update prints the code and calls sys.exit(1)
build_setup_west_update ==
    /\ tool = "build" /\ pc = "west_update"
    /\ \E test_rc \in {0, 1}, rc \in ChildCodes :
         /\ children' = children \o << Child("docker test", "none", test_rc),
                                       Child("west update", "none", rc) >>
         /\ IF rc # 0
            THEN /\ stdout' = Append(stdout, <<"Error: Command failed (exit code ", CodeText(rc)>>)
                 /\ pc' = "done" /\ exitCode' = 1
                 /\ ws_zmk' = Dir(ws_zmk.files \cup {"app/west.yml"})
            ELSE /\ stdout' = stdout
                 /\ pc' = "prepare" /\ exitCode' = exitCode
                 /\ ws_zmk' = Dir(ws_zmk.files \cup {"app/west.yml", "modules"})
    /\ UNCHANGED <<envVars, otherIdle, build_stats, ws_root, results, streams,
                   unread, stat_calls, sync_obs>>

\* main between setup_zmk and the builds: check_prerequisites, once more
\* with exit_on_error when the first call failed, 'Clean previous builds',
\* generate_build_info, which exits 1 when the script is missing or fails
build_prepare ==
    /\ tool = "build" /\ pc = "prepare"
    /\ \E prereqs \in {"ok", "no config", "no board"}, info_ok \in BOOLEAN :
         IF prereqs = "no config"
         THEN /\ stdout' = stdout \o << <<"Error: Config directory not found">>,
                                        <<"Retrying prerequisites check after ZMK setup...">>,
                                        <<"Error: Config directory not found">> >>
              /\ pc' = "done" /\ exitCode' = 1
         ELSE IF prereqs = "no board"
         THEN /\ stdout' = stdout \o << <<"Warning: Custom board definition not found">>,
                                        <<"Retrying prerequisites check after ZMK setup...">>,
                                        <<"Warning: Custom board definition not found">>,
                                        <<"Error: Prerequisites check failed even after ZMK setup">> >>
              /\ pc' = "done" /\ exitCode' = 1
         ELSE IF ~info_ok
         THEN /\ stdout' = stdout \o << <<"Creating compile-time macro">>,
                                        <<"Error running generate_build_info.sh">> >>
              /\ pc' = "done" /\ exitCode' = 1
         ELSE /\ stdout' = stdout \o << <<"Creating compile-time macro">>,
                                        <<"Build flags">> >>
              /\ pc' = Pc["left"].build /\ exitCode' = exitCode
    /\ UNCHANGED <<envVars, otherIdle, buildIdle>>

\* main: 'if build_left: build_firmware("left", ...)' and the same for
\* right.  build_firmware up to the docker command: sync_workspace of the
\* checkout main found into <workspace>/zmk-firmware, then of the project
\* root into <workspace>/project-root; an exception of either ends the run
build_sync_workspace ==
    /\ tool = "build"
    /\ \E side \in BuildSides :
         /\ pc = Pc[side].build
         /\ IF ~BuildsSide(args, side)
            THEN /\ pc' = AfterSide(side)
                 /\ UNCHANGED <<ws_zmk, ws_root, stdout, exitCode>>
            ELSE \E o1 \in SyncOutcomes, o2 \in SyncOutcomes :
                 LET r1 == Sync(zmk_source, ws_zmk, o1)
                     r2 == Sync(RootSource, ws_root, o2)
                 IN /\ ws_zmk' = r1.dst
                    /\ stdout' = stdout
                    /\ IF r1.raised
                       THEN /\ Uncaught
                            /\ ws_root' = ws_root
                       ELSE /\ ws_root' = r2.dst
                            /\ IF r2.raised
                               THEN Uncaught
                               ELSE pc' = Pc[side].popen /\ exitCode' = exitCode
    /\ UNCHANGED <<envVars, otherIdle, children, build_stats, results, streams,
                   unread, stat_calls, sync_obs>>

\* build-local.py main: 'if build_left: build_side("left", ...)' and the
\* same for right; build_side up to the Popen of build_firmware
local_build_side ==
    /\ tool = "build_local"
    /\ \E side \in BuildSides :
         /\ pc = Pc[side].build
         /\ pc' = IF BuildsSide(args, side) THEN Pc[side].popen ELSE AfterSide(side)
    /\ UNCHANGED <<envVars, otherIdle, buildIdle, stdout, exitCode>>

\* build_firmware of both scripts: subprocess.Popen with two pipes, then the
\* two daemon threads are started
build_firmware_popen ==
    /\ tool \in {"build", "build_local"}
    /\ \E side \in BuildSides :
         /\ pc = Pc[side].popen
         /\ streams' = [streams EXCEPT ![side] =
                [NoStream EXCEPT !.child = "running",
                                 !.reader = [st \in StreamNames |-> "running"]]]
         /\ stdout' = Append(stdout, <<"Building side firmware", side>>)
         /\ pc' = Pc[side].wait
    /\ UNCHANGED <<envVars, otherIdle, children, build_stats, ws_zmk, ws_root,
                   results, unread, stat_calls, sync_obs, exitCode>>

\* the child writes its next line to one of its streams
child_write ==
    /\ exitCode = -1
    /\ \E side \in BuildSides, st \in StreamNames :
         LET s == streams[side]
         IN /\ s.child = "running"
            /\ s.written[st] < Len(ChildLines[st])
            /\ streams' = [streams EXCEPT
                   ![side].written[st] = @ + 1,
                   ![side].pipe[st] = Append(@, ChildLines[st][s.written[st] + 1])]
    /\ UNCHANGED <<envVars, otherIdle, children, build_stats, ws_zmk, ws_root,
                   results, unread, stat_calls, sync_obs, stdout, exitCode, pc>>

\* the child exits; a build that exits 0 has written the firmware image of
\* its side under the build directory of the tree it ran against
child_exit ==
    /\ exitCode = -1
    /\ \E side \in BuildSides, rc \in ChildCodes :
         /\ streams[side].child = "running"
         /\ streams' = [streams EXCEPT ![side].child = "exited",
                                       ![side].returncode = rc]
         /\ IF rc # 0
            THEN UNCHANGED <<ws_zmk, ws_root>>
            ELSE IF tool = "build"
            THEN /\ ws_root' = Dir(ws_root.files \cup {Artifact(side)})
                 /\ ws_zmk' = ws_zmk
            ELSE /\ ws_zmk' = Dir(ws_zmk.files \cup {Artifact(side)})
                 /\ ws_root' = ws_root
    /\ UNCHANGED <<envVars, otherIdle, children, build_stats, results, unread,
                   stat_calls, sync_obs, stdout, exitCode, pc>>

\* read_stream in a reader thread: 'for line in iter(stream.readline, "")'
\* prints the next line of its pipe, and ends at end of file, which the
\* pipe reaches when the child has exited and the pipe is empty.  The
\* threads are followed until build_firmware returns or exits: streams then
\* keeps what had been forwarded at that moment, and nothing the script
\* does later looks at what a thread still running forwards afterwards.
read_stream ==
    /\ exitCode = -1
    /\ \E side \in BuildSides, st \in StreamNames :
         LET s == streams[side]
         IN /\ pc \in {Pc[side].wait, Pc[side].join}
            /\ s.reader[st] = "running"
            /\ IF s.pipe[st] # <<>>
               THEN streams' = [streams EXCEPT
                        ![side].pipe[st] = Tail(@),
                        ![side].console[st] = Append(@, Head(s.pipe[st]))]
               ELSE /\ s.child = "exited"
                    /\ streams' = [streams EXCEPT ![side].reader[st] = "done"]
    /\ UNCHANGED <<envVars, otherIdle, children, build_stats, ws_zmk, ws_root,
                   results, unread, stat_calls, sync_obs, stdout, exitCode, pc>>

\* build_firmware of both scripts: returncode = process.wait()
build_firmware_wait ==
    /\ tool \in {"build", "build_local"}
    /\ \E side \in BuildSides :
         /\ pc = Pc[side].wait
         /\ streams[side].child = "exited"
         /\ children' = Append(children,
                               Child("west build", side, streams[side].returncode))
         /\ pc' = Pc[side].join
    /\ UNCHANGED <<envVars, otherIdle, build_stats, ws_zmk, ws_root, results,
                   streams, unread, stat_calls, sync_obs, stdout, exitCode>>

\* the call placed after the check of the exit code
StatCall_success_only(calls, side, returncode) ==
    IF returncode = 0 THEN Append(calls, [side |-> side, returncode |-> returncode])
    ELSE calls

\* timing_callback(side, build_opts, start_time, end_time, duration, returncode)

StatCall(calls, side, returncode) ==
    Append(calls, [side |-> side, returncode |-> returncode])

\* build.py build_firmware after process.wait(): the two join(timeout=1)
\* have returned, whether or not the threads have ended; timing_callback,
\* which is save_build_stat (an exception of it is caught by 'except
\* Exception' and exits 1); then sys.exit(1) on a non-zero code
build_firmware_finish ==
    /\ tool = "build"
    /\ \E side \in BuildSides, stat_ok \in BOOLEAN :
         LET rc == streams[side].returncode
         IN /\ pc = Pc[side].join
            /\ stat_calls' = StatCall(stat_calls, side, rc)
            /\ streams' = EndOfBuildFirmware(streams, side)
            /\ unread' = UnreadAtEnd(unread, streams, side)
            /\ build_stats' = IF stat_ok
                              THEN Append(build_stats, [side |-> side, returncode |-> rc])
                              ELSE build_stats
            /\ IF ~stat_ok
               THEN /\ stdout' = Append(stdout, <<"Error: Exception during build">>)
                    /\ pc' = "done" /\ exitCode' = 1
               ELSE IF rc # 0
               THEN /\ stdout' = Append(stdout,
                           <<"Error: Failed to build side firmware (exit code ",
                             side, CodeText(rc)>>)
                    /\ pc' = "done" /\ exitCode' = 1
               ELSE /\ stdout' = stdout
                    /\ pc' = AfterSide(side) /\ exitCode' = exitCode
    /\ UNCHANGED <<envVars, otherIdle, children, ws_zmk, ws_root, results, sync_obs>>

\* build.py copy_firmware: the image is looked for in the workspace, under
\* project-root/build/<keyboard>_<side><suffix>/zephyr (the other places it
\* tries are ones no build writes to) and copied to results/<result name>
CopyFirmware(side, result_firmware, res) ==
    IF Artifact(side) \in ws_root.files THEN res \cup {result_firmware} ELSE res

\* main: print("Build complete!") and the copy_firmware calls, whose result
\* main does not look at
build_copy_firmware ==
    /\ tool = "build" /\ pc = "copy"
    /\ LET cfg == Entry(inventory, device_name)
           name(side) == ResultFirmware(cfg, side, args.shield_type)
           after_left == IF BuildsSide(args, "left")
                         THEN CopyFirmware("left", name("left"), results)
                         ELSE results
           line(side) ==
               IF ~BuildsSide(args, side) THEN <<>>
               ELSE IF Artifact(side) \in ws_root.files
               THEN << <<"side firmware copied to results as ", side, name(side)>> >>
               ELSE << <<"Error: side firmware not found at either path", side>> >>
       IN /\ results' = IF BuildsSide(args, "right")
                        THEN CopyFirmware("right", name("right"), after_left)
                        ELSE after_left
          /\ stdout' = stdout \o << <<"Build complete!">> >> \o line("left") \o line("right")
    /\ pc' = "done" /\ exitCode' = 0
    /\ UNCHANGED <<envVars, otherIdle, children, build_stats, ws_zmk, ws_root,
                   streams, unread, stat_calls, sync_obs>>

\* build-local.py after process.wait(): the two join(timeout=1) have
\* returned; build_firmware logs a non-zero code and returns; build_side
\* calls save_build_stat, which swallows its exceptions, and on success
\* copy_firmware, which returns False when the image is missing or the copy
\* raises, and whose result build_side does not look at
local_build_side_finish ==
    /\ tool = "build_local"
    /\ \E side \in BuildSides, stat_ok \in BOOLEAN, copy_ok \in BOOLEAN :
         LET rc == streams[side].returncode
             copied == rc = 0 /\ Artifact(side) \in ws_zmk.files /\ copy_ok
         IN /\ pc = Pc[side].join
            /\ stat_calls' = StatCall(stat_calls, side, rc)
            /\ streams' = EndOfBuildFirmware(streams, side)
            /\ unread' = UnreadAtEnd(unread, streams, side)
            /\ build_stats' = IF stat_ok
                              THEN Append(build_stats, [side |-> side, returncode |-> rc])
                              ELSE build_stats
            /\ results' = IF copied THEN results \cup {LocalResultFirmware(side)}
                          ELSE results
            /\ stdout' = stdout
                 \o (IF rc # 0
                     THEN << <<"Error: Build command failed (exit code ", CodeText(rc)>> >>
                     ELSE <<>>)
                 \o (IF stat_ok THEN << <<"Build statistics saved">> >>
                     ELSE << <<"Error saving build stats">> >>)
                 \o (IF rc # 0 THEN <<>>
                     ELSE IF copied THEN << <<"Firmware copied", side>> >>
                     ELSE << <<"Error: Firmware not copied", side>> >>)
            /\ pc' = AfterSide(side)
    /\ UNCHANGED <<envVars, otherIdle, children, ws_zmk, ws_root, sync_obs, exitCode>>

\* build-local.py main: 'Print summary'; success is False when a requested
\* side's build returned a non-zero code
local_summary ==
    /\ tool = "build_local" /\ pc = "summary"
    /\ IF \A k \in DOMAIN children : children[k].returncode = 0
       THEN /\ stdout' = stdout \o << <<"Build completed successfully">>,
                                      <<"Firmware files are in results">> >>
            /\ exitCode' = 0
       ELSE /\ stdout' = Append(stdout, <<"Build failed">>)
            /\ exitCode' = 1
    /\ pc' = "done"
    /\ UNCHANGED <<envVars, otherIdle, buildIdle>>

\* sync_workspace called on its own
sync_workspace ==
    /\ tool = "sync_workspace" /\ pc = "call"
    /\ \E o \in SyncOutcomes :
         LET r == Sync(zmk_source, ws_zmk, o)
         IN /\ ws_zmk' = r.dst
            /\ sync_obs' = SyncObserved(zmk_source, ws_zmk, r)
            /\ exitCode' = IF r.raised THEN 1 ELSE 0
    /\ pc' = "done"
    /\ UNCHANGED <<envVars, otherIdle, children, build_stats, ws_root, results,
                   streams, unread, stat_calls, stdout>>

InitBuildCommon ==
    /\ configLoad = "ok"
    /\ devices = <<>>
    /\ udevQuoted = FALSE
    /\ firmware_isfile = FALSE
    /\ ready_time = DEFAULT_READY_TIME
    /\ InitCommon

\* the zmk-firmware checkout main found: bare, without an app directory,
\* after a west init, or with everything a setup has put there
SourceTrees ==
    {Dir({"app"}), Dir({}), Dir({"app", ".west/config"}),
     Dir({"app"} \cup SetupFiles)}

\* --left-only, --right-only and --shield of build.py
BuildArgs(only, shield_type) ==
    [left_only |-> only.left_only, right_only |-> only.right_only,
     shield_type |-> shield_type]

\* the entries of the catalogue that have a keyboard_name
BuildableEntries == {k \in 1..Len(Catalogue) : Catalogue[k].keyboard_name # "None"}

\* what an earlier run left in the workspace
StaleZmk == Dir({"app", "stale"})
StaleRoot == Dir({"config", "stale", Artifact("left"), Artifact("right")})

\* the combinations of --left-only and --right-only other than neither
OneSided == BuildOptionSets \ {[left_only |-> FALSE, right_only |-> FALSE]}

\* build.py at the call of setup_zmk.  A run that builds both sides starts
\* from a bare checkout; a run with --left-only or --right-only sees every
\* checkout, and the default device and shield or another one.
InitBuild ==
    /\ tool = "build"
    /\ pc = "setup_sync"
    /\ \/ /\ inventory = <<Catalogue[1]>>
          /\ args = BuildArgs([left_only |-> FALSE, right_only |-> FALSE], "nice_view")
          /\ zmk_source = Dir({"app"})
          /\ \/ ws_zmk = Absent /\ ws_root = Absent
             \/ ws_zmk = StaleZmk /\ ws_root = StaleRoot
       \/ /\ inventory = <<Catalogue[1]>>
          /\ args \in {BuildArgs(o, "nice_view") : o \in OneSided}
          /\ zmk_source \in SourceTrees
          /\ \/ ws_zmk = Absent /\ ws_root = Absent
             \/ ws_zmk = StaleZmk /\ ws_root = StaleRoot
       \/ /\ \E k \in BuildableEntries : inventory = <<Catalogue[k]>>
          /\ args \in {BuildArgs(o, s) : o \in OneSided, s \in {"nice_view", "nice_view_gem"}}
          /\ ~(args.left_only /\ args.right_only)
          /\ zmk_source = Dir({"app"} \cup SetupFiles)
          /\ ws_zmk = Absent /\ ws_root = Absent
    /\ device_name = inventory[1].nickname
    /\ InitBuildCommon

\* build-local.py at 'Build firmware': with both --left-only and
\* --right-only main has exited before; ws_zmk is ~/pkg/zmk, set up
InitBuildLocal ==
    /\ tool = "build_local"
    /\ pc = Pc["left"].build
    /\ args \in {a \in BuildOptionSets : ~(a.left_only /\ a.right_only)}
    /\ inventory = <<>>
    /\ device_name = DEFAULT_DEVICE
    /\ zmk_source = Absent
    /\ ws_zmk = Dir({"app"} \cup SetupFiles)
    /\ ws_root = Absent
    /\ InitBuildCommon

\* the arguments of one sync_workspace call: src missing or a tree, dst
\* missing, empty or a tree with other files
InitSync ==
    /\ tool = "sync_workspace"
    /\ pc = "call"
    /\ args = NoFlags
    /\ inventory = <<>>
    /\ device_name = "none"
    /\ zmk_source \in {Absent, Dir({}), Dir({"app"}), Dir({"app", "modules"})}
    /\ ws_zmk \in {Absent, Dir({}), Dir({"stale"}), Dir({"app", "stale"})}
    /\ ws_root = Absent
    /\ InitBuildCommon

Init == InitFind \/ InitBoot \/ InitFlash \/ InitBuild \/ InitBuildLocal \/ InitSync

Next ==
    \/ find_load_devices_config
    \/ find_scan_device
    \/ find_display_results
    \/ check_bootloader_device
    \/ flash_main_config
    \/ flash_find_device
    \/ flash_verify_device
    \/ flash_check_firmware
    \/ flash_mount
    \/ flash_copy
    \/ flash_settle
    \/ flash_unmount
    \/ flash_except
    \/ build_setup_sync
    \/ build_setup_west_init
    \/ build_setup_west_update
    \/ build_prepare
    \/ build_sync_workspace
    \/ local_build_side
    \/ build_firmware_popen
    \/ child_write
    \/ child_exit
    \/ read_stream
    \/ build_firmware_wait
    \/ build_firmware_finish
    \/ build_copy_firmware
    \/ local_build_side_finish
    \/ local_summary
    \/ sync_workspace

Spec == Init /\ [][Next]_vars

(***************************************************************************)
(* Vocabulary of the properties.                                           *)
(***************************************************************************)
Range(s) == {s[i] : i \in DOMAIN s}

FindRun  == tool = "find_devices"
FlashRun == tool = "flash_firmware"
BootRun  == tool = "check_bootloader"

\* the device's metadata shows a removable USB device with both ids
ShowsBootloaderShape(d) ==
    d.ok /\ d.removable /\ d.usb /\ d.vendor # None /\ d.product # None

\* both id strings of the device equal those of the entry, ignoring case
SameIds(d, e) ==
    /\ d.vendor # None /\ d.product # None
    /\ e.vendor_id # None /\ e.product_id # None
    /\ Lower(d.vendor) = Lower(e.vendor_id)
    /\ Lower(d.product) = Lower(e.product_id)

\* the scan reported device i for inventory entry k
Reported(i, k) == <<inventory[k].nickname, DevPaths[i]>> \in Range(matching_devices)

ScanFinished == FindRun /\ pc = "done" /\ configLoad = "ok"

\* standard output has the result line of the match of device i with entry k:
\* the path alone, or 'nickname: path' with --debug
PrintedAsMatch(i, k) ==
    IF args.debug
    THEN <<inventory[k].nickname, ": ", DevPaths[i]>> \in Range(stdout)
    ELSE <<DevPaths[i]>> \in Range(stdout)

\* find_devices.py ran with none of its four options
PlainFindRun == FindRun /\ args = NoFlags

\* the (device, entry) index pairs in scan order: devices first, then entries
PairsInScanOrder ==
    [n \in 1..(Len(devices) * Len(inventory)) |->
        <<((n - 1) \div Len(inventory)) + 1, ((n - 1) % Len(inventory)) + 1>>]

\* the paths of the pairs with the same ids, queried devices only, in scan order
ExpectedPathLines ==
    LET same(p) == devices[p[1]].ok /\ SameIds(devices[p[1]], inventory[p[2]])
        hits == SelectSeq(PairsInScanOrder, same)
    IN [n \in DOMAIN hits |-> <<DevPaths[hits[n][1]]>>]

\* standard output has a line of the 'All bootloader devices' list for device i
ListedOnStdout(i) ==
    \E k \in DOMAIN stdout :
        /\ Len(stdout[k]) = 3
        /\ stdout[k][1] = DevPaths[i]
        /\ stdout[k][2] = " (vendor_id= product_id=) - "

\* no attached device that can be queried has the ids of an inventory entry
NoDeviceMatches ==
    \A i \in DOMAIN devices, k \in DOMAIN inventory :
        ~(devices[i].ok /\ SameIds(devices[i], inventory[k]))

\* find_device has run find_devices.py and read its output
DiscoveryRan == FlashRun /\ child_stdout.ran

\* the '/dev/' lines of the output of find_devices.py, as find_device reads it
ReportedPaths == DevicePathLines(OutputLines(child_stdout.lines))

\* the try block issued the mount command
MountIssued == \E k \in DOMAIN events : events[k].cmd = "mount"

\* the device find_device selected, and the inventory entry named by --device
SelectedDevice == devices[PathIndex(device_path)]
NamedEntry == Entry(inventory, device_name)

BuildRun == tool \in {"build", "build_local"}

\* the children that run the build toolchain (west init, west update, west
\* build); the docker test command is not one of them
ToolchainChild(c) == c.cmd \in {"west init", "west update", "west build"}

\* number of positions of s that hold x
Count(s, x) == Cardinality({k \in DOMAIN s : s[k] = x})

\* a run of build.py
DockerBuildRun == tool = "build"

\* the run has waited for a 'west build' child of the side that exited 0
BuiltOk(side) == \E k \in DOMAIN children : children[k] = Child("west build", side, 0)

\* the name under which build.py puts the image of a side into results/
ResultOf(side) == ResultFirmware(NamedEntry, side, args.shield_type)

\* main is about to start the docker build command of a side
DockerBuildStarts == \E side \in BuildSides : pc = Pc[side].popen

\* the --variant of flash_firmware.py that goes with a shield of build.py
VariantOfShield(shield_type) == IF shield_type = "nice_view" THEN "default" ELSE "gem"

\* the firmware entry of the named device for the requested variant is a
\* per-side mapping that has no file for the requested side
NoFileForSide ==
    LET fw == NamedEntry.firmware
        fc == IF args.variant = "default" THEN fw.standard ELSE fw.nice_view_gem
    IN /\ fc.kind = "sides"
       /\ (IF args.side = "left" THEN fc.left ELSE fc.right) = ""

\* an invocation of flash_firmware.py that main rejects
RejectedInvocation ==
    \/ args.side \notin {"left", "right"}
    \/ args.variant \notin {"default", "gem"}
    \/ configLoad # "ok"
    \/ device_name \notin Nicknames(inventory)
    \/ NamedEntry.keyboard_name = "None"
    \/ NoFileForSide

\* a run of build-local.py
LocalBuildRun == tool = "build_local"

\* the sides a build run was asked for
RequestedSides == {side \in BuildSides : BuildsSide(args, side)}

\* the run has waited for a 'west build' child of the side
BuildAttempted(side) ==
    \E k \in DOMAIN children : children[k].cmd = "west build" /\ children[k].side = side

\* build-local.py has logged its success lines
LoggedSuccess ==
    \E k \in DOMAIN stdout : stdout[k] = <<"Build completed successfully">>

\* the lines the child of a side has written to a stream so far
WrittenLines(side, st) == SubSeq(ChildLines[st], 1, streams[side].written[st])

\* the lines of each stream were printed in the order the child wrote them:
\* what was printed, followed by what waits in the pipe, is what was written
ForwardedInOrder(side) ==
    \A st \in StreamNames :
        streams[side].console[st] \o streams[side].pipe[st] = WrittenLines(side, st)

IsWestBuild(c) == c.cmd = "west build"

\* the build children the run has waited for, in order
WestBuilds == SelectSeq(children, IsWestBuild)

\* main is between process.wait() and the end of build_firmware
InsideBuildFirmware == \E side \in BuildSides : pc = Pc[side].join

\* a call of sync_workspace on its own has ended
SyncRun == tool = "sync_workspace" /\ pc = "done" /\ sync_obs.called

\* the three ways a call of sync_workspace ends
SyncSourceMissing == ~sync_obs.src.exists /\ sync_obs.after.exists /\ ~sync_obs.raised
SyncCopied ==
    sync_obs.src.exists /\ ~sync_obs.raised /\ sync_obs.after = Dir(sync_obs.src.files)
SyncFailedClean == sync_obs.src.exists /\ sync_obs.raised /\ ~sync_obs.after.exists

\* the try block issued cmd and it failed
FailedInTry(cmd) ==
    \E k \in DOMAIN events :
        events[k].cmd = cmd /\ events[k].phase = "try" /\ ~events[k].ok

(***************************************************************************)
(* C1: the discovery scan reports (nickname(E), path(D)) if and only if D  *)
(* and E have the same vendor and product id ignoring case and D has the   *)
(* shape of a bootloader (query succeeded, removable, USB, both ids).      *)
(* The scan of main never looks at the removable attribute or the bus.     *)
(***************************************************************************)
C1_MatchIffSameIdsAndBootloaderShape ==
    ScanFinished =>
        \A i \in DOMAIN devices, k \in DOMAIN inventory :
            Reported(i, k) <=>
                (SameIds(devices[i], inventory[k]) /\ ShowsBootloaderShape(devices[i]))

(***************************************************************************)
(* C2: check_bootloader_device returns true if and only if the metadata    *)
(* shows removable, USB bus, a vendor id and a product id; false when the  *)
(* query fails.  The function only recognises KEY="value" lines.           *)
(***************************************************************************)
C2_BootloaderIffFourSignals ==
    (BootRun /\ pc = "done") =>
        (boot_result[1] <=> ShowsBootloaderShape(devices[1]))

(***************************************************************************)
(* C3: a block device whose removable attribute is false never produces a  *)
(* match.                                                                  *)
(***************************************************************************)
C3_NonRemovableNeverMatches ==
    ScanFinished =>
        \A i \in DOMAIN devices :
            ~devices[i].removable =>
                /\ \A m \in Range(matching_devices) : m[2] # DevPaths[i]
                /\ <<DevPaths[i]>> \notin Range(stdout)

(***************************************************************************)
(* C4: when mount and copy succeed and the final unmount fails, the flash  *)
(* ends in success (flash_firmware returns True, exit status 0).           *)
(***************************************************************************)
C4_UnmountFailureStillSuccess ==
    (FlashRun /\ pc = "done" /\ FailedInTry("umount")) =>
        (flash_result /\ exitCode = 0)

(***************************************************************************)
(* C5: if the mount or the copy fails, nothing of the try block follows    *)
(* the failed step (no settle wait, no 'Flashing complete!'), the handler  *)
(* attempts one unmount whose own outcome is ignored, and the process      *)
(* exits with status 1.                                                    *)
(***************************************************************************)
C5_MountOrCopyFailureIsFatal ==
    (FlashRun /\ (FailedInTry("mount") \/ FailedInTry("cp"))) =>
        /\ \A k \in DOMAIN events : events[k].cmd # "sleep"
        /\ <<"Flashing complete!">> \notin Range(stdout)
        /\ ~flash_result
        /\ \A k \in DOMAIN events :
              (events[k].phase = "try" /\ ~events[k].ok) =>
                  \A j \in DOMAIN events : j > k => events[j].phase = "except"
        /\ \/ pc = "except" /\ exitCode = -1
           \/ /\ pc = "done" /\ exitCode = 1
              /\ events[Len(events)].cmd = "umount"
              /\ events[Len(events)].phase = "except"

C5_Witness ==
    /\ FlashRun /\ pc = "done" /\ exitCode = 1
    /\ FailedInTry("cp")
    /\ events[Len(events)] = Step("umount", FALSE, "except", <<>>)

(***************************************************************************)
(* C6: with a firmware image path that does not exist, flash_firmware      *)
(* exits with status 1 before the mount point is created and before any    *)
(* mount, copy or unmount is issued.                                       *)
(***************************************************************************)
C6_MissingFirmwareFailsBeforeMount ==
    (FlashRun /\ ~firmware_isfile) =>
        /\ events = <<>>
        /\ pc \in {"load", "find", "verify", "check_firmware", "done"}
        /\ pc = "done" => exitCode = 1
        /\ ~flash_result

C6_Witness ==
    /\ FlashRun /\ ~firmware_isfile
    /\ verify \in {"matched", "override"}
    /\ pc = "done" /\ exitCode = 1
    /\ <<"Error: Firmware file not found">> \in Range(stdout)
    /\ events = <<>>

(***************************************************************************)
(* C7: a successful flash issues, exactly once each and in this order:     *)
(* create the mount point, mount, copy, wait ready_time seconds, unmount.  *)
(* A copy is always preceded by a successful mount, and the unmount of the *)
(* try block by the settle wait.                                           *)
(***************************************************************************)
C7_StepsOnceInOrder ==
    FlashRun =>
        /\ flash_result =>
              /\ events = << Step("makedirs", TRUE, "try", <<>>),
                             Step("mount", TRUE, "try", <<device_path>>),
                             Step("cp", TRUE, "try", <<>>),
                             Step("sleep", TRUE, "try", <<ready_time>>),
                             Step("umount", TRUE, "try", <<>>) >>
              /\ pc = "done" /\ exitCode = 0
        /\ \A k \in DOMAIN events :
              events[k].cmd = "cp" =>
                  \E j \in 1..(k - 1) : events[j].cmd = "mount" /\ events[j].ok
        /\ \A k \in DOMAIN events :
              (events[k].cmd = "umount" /\ events[k].phase = "try") =>
                  \E j \in 1..(k - 1) :
                      events[j].cmd = "sleep" /\ events[j].arg = <<ready_time>>

C7_Witness ==
    /\ FlashRun /\ flash_result /\ pc = "done"
    /\ ready_time = DEFAULT_READY_TIME
    /\ Len(events) = 5

(***************************************************************************)
(* C8: find_devices.py exits 0 whenever the inventory loads (also when     *)
(* nothing matches or a device cannot be queried) and exits 1 when         *)
(* devices.conf is not found or does not parse.                            *)
(***************************************************************************)
C8_ExitCodes ==
    FindRun =>
        /\ pc # "done" => exitCode = -1
        /\ (pc = "done" /\ configLoad = "ok") => exitCode = 0
        /\ (pc = "done" /\ configLoad \in {"notfound", "yamlerror"}) => exitCode = 1

C8_Witness ==
    /\ ScanFinished /\ exitCode = 0
    /\ matching_devices = <<>>
    /\ Len(devices) = 2
    /\ ~devices[1].ok
    /\ devices[2].ok

(***************************************************************************)
(* C9: a failed metadata query skips that device only: the scan goes on to *)
(* the remaining devices, every other device whose ids equal an inventory  *)
(* entry's is reported and printed, and the scan ends with exit status 0.  *)
(***************************************************************************)
C9_FailedQuerySkipsOnlyThatDevice ==
    (FindRun /\ configLoad = "ok" /\ \E i \in DOMAIN devices : ~devices[i].ok) =>
        /\ pc = "done" => (exitCode = 0 /\ idx = Len(devices) + 1)
        /\ \A i \in DOMAIN devices :
              (i < idx /\ ~devices[i].ok) =>
                  \A m \in Range(matching_devices) : m[2] # DevPaths[i]
        /\ \A i \in DOMAIN devices, k \in DOMAIN inventory :
              (i < idx /\ devices[i].ok /\ SameIds(devices[i], inventory[k])) =>
                  /\ Reported(i, k)
                  /\ pc = "done" => PrintedAsMatch(i, k)

C9_Witness ==
    /\ ScanFinished /\ exitCode = 0
    /\ Len(devices) = 2
    /\ ~devices[1].ok
    /\ devices[2].ok
    /\ \E k \in DOMAIN inventory : SameIds(devices[2], inventory[k])
    /\ stdout # <<>>

(***************************************************************************)
(* C10: ids are compared as text, ignoring case and nothing else: the scan *)
(* reports a queried device with both ids for an entry with both ids if    *)
(* and only if the lower-cased id strings are equal, and verify_device     *)
(* accepts the device without asking under the same condition ('1D50'      *)
(* equals '1d50', '0615' differs from '615').                              *)
(***************************************************************************)
C10_CaseInsensitiveTextEquality ==
    /\ ScanFinished =>
          \A i \in DOMAIN devices, k \in DOMAIN inventory :
              LET d == devices[i]
                  e == inventory[k]
              IN (d.ok /\ d.vendor # None /\ d.product # None
                       /\ e.vendor_id # None /\ e.product_id # None) =>
                     (Reported(i, k) <=>
                         (Lower(d.vendor) = Lower(e.vendor_id)
                              /\ Lower(d.product) = Lower(e.product_id)))
    /\ (FlashRun /\ verify \in {"matched", "override", "rejected"}) =>
          LET d == devices[PathIndex(device_path)]
              e == Entry(inventory, device_name)
          IN (verify = "matched") <=>
                 (/\ d.vendor # None /\ d.product # None
                  /\ Lower(d.vendor) = Lower(e.vendor_id)
                  /\ Lower(d.product) = Lower(e.product_id))

C10_Witness ==
    /\ FlashRun /\ verify = "matched"
    /\ device_name = "corne_left"
    /\ Len(devices) = 2
    /\ devices[1].vendor = Id_1D50 /\ devices[1].product = Id_0615
    /\ devices[2].vendor = Id_1D50 /\ devices[2].product = Id_615
    /\ device_path = DevPaths[2]
    /\ Nicknames(inventory) = {"corne_left"}

(***************************************************************************)
(* C11: the match list is never deduplicated.  When the scan has finished, *)
(* the list holds the pair (nickname, path) exactly once for every device  *)
(* whose metadata was read and every inventory entry with the same ids,    *)
(* and holds nothing else: two devices with the same ids are both listed,  *)
(* and a device whose ids k entries share is listed k times.               *)
(***************************************************************************)
C11_OneMatchPerPair ==
    ScanFinished =>
        /\ \A i \in DOMAIN devices, k \in DOMAIN inventory :
              Count(matching_devices, <<inventory[k].nickname, DevPaths[i]>>)
                  = IF devices[i].ok /\ SameIds(devices[i], inventory[k])
                    THEN 1 ELSE 0
        /\ Len(matching_devices)
              = Cardinality({p \in (DOMAIN devices) \X (DOMAIN inventory) :
                               /\ devices[p[1]].ok
                               /\ SameIds(devices[p[1]], inventory[p[2]])})

\* two devices with the same ids, both matched by two entries: four matches
C11_Witness ==
    /\ ScanFinished
    /\ Len(devices) = 2 /\ Len(inventory) = 2
    /\ devices[1].ok /\ devices[2].ok
    /\ devices[1].vendor = devices[2].vendor
    /\ devices[1].product = devices[2].product
    /\ \A k \in DOMAIN inventory : SameIds(devices[1], inventory[k])
    /\ Len(matching_devices) = 4

(***************************************************************************)
(* C12: with an empty inventory the scan finds no match whatever devices   *)
(* are attached, and ends normally: the match list stays empty, the exit   *)
(* code is 0, and a run without options prints nothing.                    *)
(***************************************************************************)
C12_EmptyInventoryNoMatchNoError ==
    (FindRun /\ configLoad = "ok" /\ inventory = <<>>) =>
        /\ matching_devices = <<>>
        /\ exitCode \in {-1, 0}
        /\ pc = "done" => exitCode = 0
        /\ args = NoFlags => stdout = <<>>

\* two devices with both ids were scanned against an empty inventory
C12_Witness ==
    /\ ScanFinished /\ args = NoFlags
    /\ inventory = <<>>
    /\ Len(devices) = 2
    /\ \A i \in DOMAIN devices : ShowsBootloaderShape(devices[i])
    /\ exitCode = 0 /\ stdout = <<>>

(***************************************************************************)
(* C13: a run of find_devices.py without --debug, --list-all,              *)
(* --show-config and --raw-usb prints exactly the matched device paths,    *)
(* one line each, in scan order (devices in enumeration order, for each    *)
(* device the entries in inventory order), and nothing else; a run that    *)
(* fails to load the inventory prints nothing on standard output.          *)
(***************************************************************************)
C13_PlainOutputIsMatchedPaths ==
    (PlainFindRun /\ pc = "done") =>
        stdout = IF configLoad = "ok" THEN ExpectedPathLines ELSE <<>>

\* two different paths were printed
C13_Witness ==
    /\ PlainFindRun /\ ScanFinished
    /\ Len(stdout) >= 2
    /\ \E j, k \in DOMAIN stdout : stdout[j] # stdout[k]

(***************************************************************************)
(* C15: with --list-all, a device is in the printed list of all bootloader *)
(* devices if and only if it is bootloader-shaped (removable, USB bus,     *)
(* vendor id and product id present).                                      *)
(***************************************************************************)
C15_ListAllIffBootloaderShape ==
    (ScanFinished /\ args.list_all) =>
        \A i \in DOMAIN devices :
            ListedOnStdout(i) <=> ShowsBootloaderShape(devices[i])

(***************************************************************************)
(* C14: whenever flash_firmware.py issues the copy command, its            *)
(* destination is the file CURRENT.UF2 directly under the mount point of   *)
(* the run, whatever the side, the variant, the device, the mount point    *)
(* and the firmware file are; one destination is recorded per cp issued.   *)
(***************************************************************************)
C14_CopyDestinationIsCurrentUf2 ==
    FlashRun =>
        /\ Len(copy_argv) = Cardinality({k \in DOMAIN events : events[k].cmd = "cp"})
        /\ \A k \in DOMAIN copy_argv :
              LET dst == copy_argv[k].dst
                  n   == Len(args.mount_point)
              IN /\ Len(dst) = n + 1
                 /\ SubSeq(dst, 1, n) = args.mount_point
                 /\ dst[n + 1] = "CURRENT.UF2"

\* the right half of the gem variant was copied under another mount point
C14_Witness ==
    /\ FlashRun /\ copy_argv # <<>>
    /\ args.side = "right" /\ args.variant = "gem"
    /\ args.mount_point = OtherMountPoint
    /\ copy_argv[1].src = FirmwarePath("corne_right.uf2")
    /\ copy_argv[1].dst = <<"/", "mnt", "kbd", "CURRENT.UF2">>

(***************************************************************************)
(* C17: when the discovery finds no attached device with the ids of an     *)
(* inventory entry, flash_firmware.py prints 'No bootloader device found'  *)
(* and exits with status 1, and no external step (creating the mount       *)
(* point, mount, cp, umount) is ever issued.                               *)
(***************************************************************************)
C17_NoDeviceExitsBeforeAnyStep ==
    (DiscoveryRan /\ NoDeviceMatches) =>
        /\ ReportedPaths = <<>>
        /\ pc = "done" /\ exitCode = 1
        /\ <<"No bootloader device found">> \in Range(stdout)
        /\ events = <<>> /\ copy_argv = <<>>
        /\ device_path = None /\ ~flash_result

\* a device is attached, but its ids are in no inventory entry
C17_Witness ==
    /\ DiscoveryRan /\ NoDeviceMatches /\ ~args.debug
    /\ Len(devices) >= 1 /\ ShowsBootloaderShape(devices[1])
    /\ inventory # <<>>
    /\ exitCode = 1
    /\ stdout[Len(stdout)] = <<"No bootloader device found">>

(***************************************************************************)
(* C18: when the output of find_devices.py has several device path lines,  *)
(* find_device selects the first of them (the path of the first match in   *)
(* scan order) and the run goes on with it; the only line find_device      *)
(* prints is 'Found bootloader device: <path>', no warning.                *)
(***************************************************************************)
C18_FirstOfSeveralPaths ==
    (DiscoveryRan /\ Len(ReportedPaths) >= 2) =>
        /\ device_path = ReportedPaths[1][1]
        /\ device_path = ExpectedPathLines[1][1]
        /\ Len(stdout) >= 2
        /\ stdout[2] = <<"Found bootloader device:", device_path>>
        /\ pc = "verify" => (Len(stdout) = 2 /\ exitCode = -1)
        /\ verify_obs.called \/ pc = "verify"

\* two devices matched, the first one was flashed
C18_Witness ==
    /\ DiscoveryRan /\ Len(ReportedPaths) >= 2
    /\ ReportedPaths[1] # ReportedPaths[Len(ReportedPaths)]
    /\ device_path = "/dev/sda"
    /\ flash_result /\ exitCode = 0

(***************************************************************************)
(* C19: the mount command is issued only if verify_device saw that the     *)
(* selected device exists and that its metadata query succeeded, and       *)
(* either the device's ids equal, ignoring case, those of the inventory    *)
(* entry named by --device, or the operator was asked and answered y (in   *)
(* either case of the letter).  Whenever verify_device has run and these   *)
(* conditions do not hold, the process has exited with status 1 and no     *)
(* external step was issued.                                               *)
(***************************************************************************)
C19_MountOnlyAfterVerification ==
    LET verified ==
            /\ verify_obs.exists /\ verify_obs.queried
            /\ \/ SameIds(SelectedDevice, NamedEntry)
               \/ verify_obs.asked /\ Lower(verify_obs.response) = <<"y">>
    IN /\ (FlashRun /\ MountIssued) => (verify_obs.called /\ verified)
       /\ (FlashRun /\ verify_obs.called /\ ~verified) =>
              (pc = "done" /\ exitCode = 1 /\ events = <<>>)

\* the ids differ, the operator answered Y, and the device was mounted
C19_Witness ==
    /\ FlashRun /\ MountIssued
    /\ ~SameIds(SelectedDevice, NamedEntry)
    /\ verify_obs.asked /\ verify_obs.response = <<"Y">>

(***************************************************************************)
(* C20: find_device resolves the same path with and without --debug:       *)
(* whenever some attached device has the ids of an inventory entry,        *)
(* find_device returns the path of the first match in scan order.          *)
(***************************************************************************)
C20_SamePathWithAndWithoutDebug ==
    (DiscoveryRan /\ ~NoDeviceMatches) =>
        device_path = ExpectedPathLines[1][1]

(***************************************************************************)
(* C16: the exit code of a build/toolchain child is the outcome of the     *)
(* script.  The script waits for every child; when a toolchain child       *)
(* (west init, west update, west build) exited with a non-zero code, it is *)
(* the last child of the run and the script has terminated with that same  *)
(* exit code.                                                              *)
(***************************************************************************)
C16_ChildExitCodeIsScriptExitCode ==
    BuildRun =>
        /\ \A k \in DOMAIN children :
              (ToolchainChild(children[k]) /\ children[k].returncode # 0) =>
                  /\ k = Len(children)
                  /\ pc = "done"
                  /\ exitCode = children[k].returncode

(***************************************************************************)
(* C21: a build.py run that builds both sides and whose two build children *)
(* exited 0 ends with the firmware image of the left side and the image of *)
(* the right side in the results directory: the left image is still in the *)
(* workspace when copy_firmware("Left", ...) runs.                         *)
(* build_firmware("right") starts with sync_workspace(root_dir, ws_root),  *)
(* which removes project-root, the left image with it.                     *)
(***************************************************************************)
C21_BothImagesInResults ==
    (DockerBuildRun /\ pc = "done" /\ exitCode = 0
        /\ BuiltOk("left") /\ BuiltOk("right")) =>
        {ResultOf("left"), ResultOf("right")} \subseteq results

(***************************************************************************)
(* C22: the build of build.py runs against the tree setup_zmk prepared:    *)
(* when the docker build command of build_firmware starts, the workspace   *)
(* copy of ZMK holds what setup_zmk put there (.west/config of west init,  *)
(* app/west.yml, the modules of west update).                              *)
(* build_firmware starts with sync_workspace(zmk_path, ws_zmk) from the    *)
(* checkout main found, which setup_zmk never wrote to.                    *)
(***************************************************************************)
C22_BuildRunsAgainstSetupTree ==
    (DockerBuildRun /\ DockerBuildStarts) => SetupFiles \subseteq ws_zmk.files

(***************************************************************************)
(* C23: the file name flash_firmware.py looks for in results/ is the name  *)
(* build.py writes there: whenever a build.py run has put the image of a   *)
(* side into results/, its name is the name flash_firmware.py resolves for *)
(* the same device and side with the variant of the shield (default for    *)
(* nice_view, gem for nice_view_gem), with and without a firmware entry.   *)
(* Without an entry build.py appends the shield suffix to the fallback     *)
(* name and flash_firmware.py does not.                                    *)
(***************************************************************************)
C23_FlashLooksForWhatBuildWrites ==
    DockerBuildRun =>
        \A side \in BuildSides :
            ResultOf(side) \in results =>
                ResultOf(side) = FirmwareFile(NamedEntry, side,
                                              VariantOfShield(args.shield_type))

(***************************************************************************)
(* C24: flash_firmware.py exits with status 1 before device discovery and  *)
(* before any mount or copy whenever --side is not left or right,          *)
(* --variant is not default or gem, the root directory is not found, the   *)
(* inventory cannot be loaded, --device is not in the inventory, the       *)
(* device has no keyboard_name, or its firmware entry is a per-side        *)
(* mapping without a file for the requested side.                          *)
(***************************************************************************)
C24_RejectedInvocationExitsEarly ==
    (FlashRun /\ RejectedInvocation) =>
        /\ ~DiscoveryRan
        /\ events = <<>> /\ copy_argv = <<>>
        /\ verify_obs = NotVerified
        /\ pc \in {"load", "done"}
        /\ pc = "done" => exitCode = 1

C24_Witness ==
    /\ FlashRun /\ pc = "done" /\ exitCode = 1
    /\ configLoad = "ok" /\ device_name \in Nicknames(inventory)
    /\ args.side = "right" /\ args.variant = "gem"
    /\ NoFileForSide

(***************************************************************************)
(* C25: build-local.py logs 'Build completed successfully' and exits 0     *)
(* only if for every requested side the build command exited 0 and the     *)
(* image of the side was copied into results; otherwise it exits 1; and    *)
(* the right build is attempted after a failed left build.                 *)
(* build_side returns True after a successful build whatever copy_firmware *)
(* returned.                                                               *)
(***************************************************************************)
C25_SuccessOnlyIfBuiltAndCopied ==
    (LocalBuildRun /\ pc = "done") =>
        LET all_done == \A side \in RequestedSides :
                            /\ BuiltOk(side)
                            /\ LocalResultFirmware(side) \in results
        IN /\ exitCode = (IF all_done THEN 0 ELSE 1)
           /\ LoggedSuccess <=> all_done
           /\ \A side \in RequestedSides : BuildAttempted(side)

(***************************************************************************)
(* C26: when build_firmware returns or exits after the child has           *)
(* terminated, every line the child wrote to standard output and standard  *)
(* error has been forwarded to the console, and the lines of one stream    *)
(* are forwarded in the order the child wrote them, under every            *)
(* interleaving of the reader threads and the main thread.                 *)
(* The join of each thread gives up after one second, after which          *)
(* build_firmware ends with lines still in a pipe.                         *)
(***************************************************************************)
C26_AllLinesForwardedInOrder ==
    BuildRun =>
        \A side \in BuildSides :
            /\ ForwardedInOrder(side)
            /\ unread[side] = {}

(***************************************************************************)
(* C27: in build.py, for every side whose build child was started and has  *)
(* exited, with any exit code, save_build_stat is called with that side    *)
(* and that exit code before the script terminates or goes on to the next  *)
(* side: a failing build is recorded before the exit with status 1, and    *)
(* after a failing left build no right build is started.                   *)
(***************************************************************************)
C27_StatCalledBeforeExitOrNextSide ==
    DockerBuildRun =>
        /\ Len(stat_calls) = (IF InsideBuildFirmware THEN Len(WestBuilds) - 1
                              ELSE Len(WestBuilds))
        /\ \A k \in DOMAIN stat_calls :
              stat_calls[k] = [side |-> WestBuilds[k].side,
                               returncode |-> WestBuilds[k].returncode]
        /\ \A k \in DOMAIN WestBuilds :
              WestBuilds[k].returncode # 0 =>
                  /\ k = Len(WestBuilds)
                  /\ pc \in {Pc[WestBuilds[k].side].join, "done"}
                  /\ pc = "done" => exitCode = 1
                  /\ WestBuilds[k].side = "left" => streams["right"] = NoStream

C27_Witness ==
    /\ DockerBuildRun /\ pc = "done" /\ exitCode = 1
    /\ BuildsSide(args, "right")
    /\ WestBuilds = << Child("west build", "left", 2) >>
    /\ stat_calls = << [side |-> "left", returncode |-> 2] >>

(***************************************************************************)
(* C28: a call of sync_workspace ends in exactly one of three outcomes:    *)
(* the source is missing, the destination exists as a directory and no     *)
(* error is raised; the copy succeeded and the destination is a fresh copy *)
(* of the source with nothing of the previous destination; the copy failed,*)
(* the error is raised again and no destination directory is left.  The    *)
(* removal of an existing destination is attempted at most three times and *)
(* the copy is attempted even when every removal failed.                   *)
(***************************************************************************)
C28_SyncEndsInOneOfThree ==
    SyncRun =>
        /\ SyncSourceMissing \/ SyncCopied \/ SyncFailedClean
        /\ sync_obs.rm_attempts <= max_retries
        /\ sync_obs.src.exists => sync_obs.copy_attempts = 1

====
